---- MODULE Spec2Model ----
(***************************************************************************)
(* Model of storage/innobase/handler/p_s.cc: the InnoDB data lock          *)
(* instrumentation for the performance schema.                            *)
(*   - Innodb_trx_scan_state: the restartable range / pass state machine.  *)
(*   - Innodb_data_lock_iterator, Innodb_data_lock_wait_iterator: scan()   *)
(*     and fetch() with the two mutexes (lock_sys mutex, trx_sys mutex).   *)
(*   - print_lock_id / scan_lock_id: the engine lock id codec.             *)
(* Strings are sequences of one-character strings; a C string's            *)
(* terminating NUL is the character read one past the end.                 *)
(***************************************************************************)
EXTENDS Integers, Sequences, FiniteSets, TLC

(***************************************************************************)
(* Bounds of the model.                                                    *)
(***************************************************************************)
\* Longest raw identifier string handed to scan_lock_id.
MaxLen == 7
\* Largest value of a field of a lock printed by print_lock_id.
MaxCodecVal == 10
\* Longest RW trx list (trx_sys->rw_trx_list) and MySQL trx list.
MaxRwTrx == 2
MaxMysqlTrx == 1
\* The scan() calls on one iterator are counted up to MaxCalls.
MaxCalls == 4

(***************************************************************************)
(* Program constants.                                                      *)
(***************************************************************************)
SCAN_RANGE == 256
\* lock_get_type() values; 0 is scan_lock_id's "format error".
LOCK_TABLE == 16
LOCK_REC == 32
\* Stand-ins for the all-ones values ULINT_UNDEFINED, FIL_NULL, SPACE_UNKNOWN.
ULINT_UNDEFINED == 0 - 1
FIL_NULL == 0 - 2
SPACE_UNKNOWN == 0 - 3

(***************************************************************************)
(* Characters and C strings.                                               *)
(***************************************************************************)
NUL == "\\0"
Digits == <<"0", "1", "2", "3", "4", "5", "6", "7", "8", "9">>
IsDigit(c) == \E d \in 1..10 : Digits[d] = c
DigitVal(c) == (CHOOSE d \in 1..10 : Digits[d] = c) - 1
IsSpace(c) == c = " "
\* *ptr for a pointer at (1-based) position p of the C string s.
CharAt(s, p) == IF p <= Len(s) THEN s[p] ELSE NUL

\* printf("%llu") / ("%lu") / ("%u") of a non-negative value.
RECURSIVE NatToStr(_)
NatToStr(n) ==
    IF n < 10 THEN <<Digits[n + 1]>>
    ELSE NatToStr(n \div 10) \o <<Digits[(n % 10) + 1]>>

\* The digit loop of strtol: p is the position, acc the value so far.
RECURSIVE strtol_digits(_, _, _)
strtol_digits(s, p, acc) ==
    IF IsDigit(CharAt(s, p))
    THEN strtol_digits(s, p + 1, acc * 10 + DigitVal(CharAt(s, p)))
    ELSE [val |-> acc, end |-> p]

RECURSIVE strtol_skip_space(_, _)
strtol_skip_space(s, p) ==
    IF IsSpace(CharAt(s, p)) THEN strtol_skip_space(s, p + 1) ELSE p

\* strtol(s + p, &end, 10): leading white space, an optional sign, digits.
\* With no digit there is no conversion: the value is 0 and end is p.
strtol(s, p) ==
    LET q == strtol_skip_space(s, p)
        neg == CharAt(s, q) = "-"
        r == IF CharAt(s, q) \in {"-", "+"} THEN q + 1 ELSE q
        d == strtol_digits(s, r, 0)
    IN  IF d.end = r THEN [val |-> 0, end |-> p]
        ELSE [val |-> IF neg THEN 0 - d.val ELSE d.val, end |-> d.end]

\* A long stored into an unsigned variable of w bits: a negative value wraps
\* to 2^w - |v|, kept symbolically (2^64 is no number of the checker).
ToUnsigned(v, w) == IF v >= 0 THEN v ELSE [wrapped_bits |-> w, minus |-> 0 - v]

(***************************************************************************)
(* Locks, as the codec reads them.                                         *)
(***************************************************************************)
lock_get_type(lock) == lock.type
lock_get_trx_id(lock) == lock.trx_id
lock_get_table_id(lock) == lock.table_id
lock_rec_get_space_id(lock) == lock.space_id
lock_rec_get_page_no(lock) == lock.page_no

print_table_lock_id(lock) ==
    NatToStr(lock_get_trx_id(lock)) \o <<":">> \o NatToStr(lock_get_table_id(lock))

\* print_record_lock_id with the page number printed before the space id.
print_record_lock_id_swapped(lock, heap_no) ==
    NatToStr(lock_get_trx_id(lock)) \o <<":">>
        \o NatToStr(lock_rec_get_page_no(lock)) \o <<":">>
        \o NatToStr(lock_rec_get_space_id(lock)) \o <<":">>
        \o NatToStr(heap_no)

print_record_lock_id(lock, heap_no) ==
    NatToStr(lock_get_trx_id(lock)) \o <<":">>
        \o NatToStr(lock_rec_get_space_id(lock)) \o <<":">>
        \o NatToStr(lock_rec_get_page_no(lock)) \o <<":">>
        \o NatToStr(heap_no)

print_lock_id(lock, heap_no) ==
    IF lock_get_type(lock) = LOCK_TABLE THEN print_table_lock_id(lock)
    ELSE print_record_lock_id(lock, heap_no)

\* The out parameters are written only on success; "unset" otherwise.
ScanFailed ==
    [type |-> 0, trx_id |-> 0, table_id |-> 0, space_id |-> 0,
     page_id |-> 0, heap_id |-> 0]

scan_lock_id(lock_id) ==
    LET n1 == strtol(lock_id, 1)
    IN  IF CharAt(lock_id, n1.end) # ":" THEN ScanFailed
        ELSE
        LET n2 == strtol(lock_id, n1.end + 1)
        IN  IF CharAt(lock_id, n2.end) = NUL
            THEN [type |-> LOCK_TABLE,
                  trx_id |-> ToUnsigned(n1.val, 64),
                  table_id |-> ToUnsigned(n2.val, 64),
                  space_id |-> SPACE_UNKNOWN,
                  page_id |-> FIL_NULL,
                  heap_id |-> ULINT_UNDEFINED]
            ELSE
            LET n3 == strtol(lock_id, n2.end + 1)
            IN  IF CharAt(lock_id, n3.end) # ":" THEN ScanFailed
                ELSE
                LET n4 == strtol(lock_id, n3.end + 1)
                IN  IF CharAt(lock_id, n4.end) = NUL
                    THEN [type |-> LOCK_REC,
                          trx_id |-> ToUnsigned(n1.val, 64),
                          table_id |-> 0,
                          space_id |-> ToUnsigned(n2.val, 32),
                          page_id |-> ToUnsigned(n3.val, 32),
                          heap_id |-> ToUnsigned(n4.val, 64)]
                    ELSE ScanFailed

(***************************************************************************)
(* Transactions and locks, as p_s.cc reads them through the lock manager's *)
(* accessors.  A lock is a record                                          *)
(*   [type, trx_id, table_id, space_id, page_no, bits, mode, addr]         *)
(* where bits is the set of heap numbers set in a record lock's bitmap and *)
(* addr is the lock's address (its identity), which also orders the locks  *)
(* of one queue.  A transaction is a record                                *)
(*   [id, started, read_only, locks, wait_lock]                            *)
(* where locks is trx->lock.trx_locks in list order and wait_lock is the   *)
(* address of trx->lock.wait_lock, 0 for NULL.                             *)
(***************************************************************************)
TableLock(addr, trx_id, table_id, mode) ==
    [type |-> LOCK_TABLE, trx_id |-> trx_id, table_id |-> table_id,
     space_id |-> 0, page_no |-> 0, bits |-> {}, mode |-> mode, addr |-> addr]

RecLock(addr, trx_id, table_id, space_id, page_no, bits, mode) ==
    [type |-> LOCK_REC, trx_id |-> trx_id, table_id |-> table_id,
     space_id |-> space_id, page_no |-> page_no, bits |-> bits,
     mode |-> mode, addr |-> addr]

Trx(id, started, read_only, locks, wait_lock) ==
    [id |-> id, started |-> started, read_only |-> read_only,
     locks |-> locks, wait_lock |-> wait_lock]

trx_is_started(trx) == trx.started
trx_get_id_for_print(trx) == trx.id

SetMin(S) == CHOOSE x \in S : \A y \in S : x <= y
SetMax(S) == CHOOSE x \in S : \A y \in S : x >= y

\* The lowest heap number set in the bitmap, or ULINT_UNDEFINED.
lock_rec_find_set_bit(lock) ==
    IF lock.bits = {} THEN ULINT_UNDEFINED ELSE SetMin(lock.bits)

\* The lowest heap number above heap_no set in the bitmap.
lock_rec_find_next_set_bit(lock, heap_no) ==
    LET above == {b \in lock.bits : b > heap_no}
    IN  IF above = {} THEN ULINT_UNDEFINED ELSE SetMin(above)

\* lock_get_psi_event: the thread and the event that created the lock.
lock_get_psi_event(lock) == [thread_id |-> lock.trx_id, event_id |-> lock.addr]

\* lock_get_table_name and parse_table_path: the object the lock is on.
lock_get_table_name(lock) == lock.table_id

(***************************************************************************)
(* Innodb_trx_scan_state.                                                  *)
(***************************************************************************)
INIT_SCANNING == "INIT_SCANNING"
SCANNING_RW_TRX_LIST == "SCANNING_RW_TRX_LIST"
SCANNING_MYSQL_TRX_LIST == "SCANNING_MYSQL_TRX_LIST"
DONE_SCANNING == "DONE_SCANNING"
\* What is left of the scan state after ut_error.
UT_ERROR == "UT_ERROR"

\* Every transaction id is below TRX_ID_MAX (ut_ad in trx_id_in_range).
MaxTrxId == 3 * SCAN_RANGE - 1
TRX_ID_MAX == MaxTrxId + 1

Innodb_trx_scan_state ==
    [m_scan_pass |-> INIT_SCANNING,
     m_start_trx_id_range |-> 0,
     m_end_trx_id_range |-> SCAN_RANGE,
     m_next_trx_id_range |-> TRX_ID_MAX]

get_pass(s) == s.m_scan_pass

\* prepare_next_scan whose case SCANNING_RW_TRX_LIST ends the scan.
prepare_next_scan_skip_mysql(s) ==
    IF s.m_next_trx_id_range # TRX_ID_MAX
    THEN LET start == s.m_next_trx_id_range
                        - (s.m_next_trx_id_range % SCAN_RANGE)
         IN  [s EXCEPT !.m_start_trx_id_range = start,
                       !.m_end_trx_id_range = start + SCAN_RANGE,
                       !.m_next_trx_id_range = TRX_ID_MAX]
    ELSE CASE s.m_scan_pass = INIT_SCANNING ->
                [m_scan_pass |-> SCANNING_RW_TRX_LIST,
                 m_start_trx_id_range |-> 0,
                 m_end_trx_id_range |-> SCAN_RANGE,
                 m_next_trx_id_range |-> TRX_ID_MAX]
           [] s.m_scan_pass = SCANNING_RW_TRX_LIST ->
                [s EXCEPT !.m_scan_pass = DONE_SCANNING]
           [] s.m_scan_pass = SCANNING_MYSQL_TRX_LIST ->
                [s EXCEPT !.m_scan_pass = DONE_SCANNING]
           [] OTHER -> [s EXCEPT !.m_scan_pass = UT_ERROR]

\* prepare_next_scan that does not reset m_next_trx_id_range when it moves
\* the range.
prepare_next_scan_keep_hint(s) ==
    IF s.m_next_trx_id_range # TRX_ID_MAX
    THEN LET start == s.m_next_trx_id_range
                        - (s.m_next_trx_id_range % SCAN_RANGE)
         IN  [s EXCEPT !.m_start_trx_id_range = start,
                       !.m_end_trx_id_range = start + SCAN_RANGE]
    ELSE CASE s.m_scan_pass = INIT_SCANNING ->
                [m_scan_pass |-> SCANNING_RW_TRX_LIST,
                 m_start_trx_id_range |-> 0,
                 m_end_trx_id_range |-> SCAN_RANGE,
                 m_next_trx_id_range |-> TRX_ID_MAX]
           [] s.m_scan_pass = SCANNING_RW_TRX_LIST ->
                [m_scan_pass |-> SCANNING_MYSQL_TRX_LIST,
                 m_start_trx_id_range |-> 0,
                 m_end_trx_id_range |-> SCAN_RANGE,
                 m_next_trx_id_range |-> TRX_ID_MAX]
           [] s.m_scan_pass = SCANNING_MYSQL_TRX_LIST ->
                [s EXCEPT !.m_scan_pass = DONE_SCANNING]
           [] OTHER -> [s EXCEPT !.m_scan_pass = UT_ERROR]

\* prepare_next_scan whose next range ends with the hint, not aligned on
\* SCAN_RANGE.
prepare_next_scan_range_ends_at_hint(s) ==
    IF s.m_next_trx_id_range # TRX_ID_MAX
    THEN [s EXCEPT !.m_start_trx_id_range =
                       s.m_next_trx_id_range + 1 - SCAN_RANGE,
                   !.m_end_trx_id_range = s.m_next_trx_id_range + 1,
                   !.m_next_trx_id_range = TRX_ID_MAX]
    ELSE CASE s.m_scan_pass = INIT_SCANNING ->
                [m_scan_pass |-> SCANNING_RW_TRX_LIST,
                 m_start_trx_id_range |-> 0,
                 m_end_trx_id_range |-> SCAN_RANGE,
                 m_next_trx_id_range |-> TRX_ID_MAX]
           [] s.m_scan_pass = SCANNING_RW_TRX_LIST ->
                [m_scan_pass |-> SCANNING_MYSQL_TRX_LIST,
                 m_start_trx_id_range |-> 0,
                 m_end_trx_id_range |-> SCAN_RANGE,
                 m_next_trx_id_range |-> TRX_ID_MAX]
           [] s.m_scan_pass = SCANNING_MYSQL_TRX_LIST ->
                [s EXCEPT !.m_scan_pass = DONE_SCANNING]
           [] OTHER -> [s EXCEPT !.m_scan_pass = UT_ERROR]

\* prepare_next_scan whose next range is the one after the current range,
\* whatever the hint.
prepare_next_scan_adjacent_range(s) ==
    IF s.m_next_trx_id_range # TRX_ID_MAX
    THEN [s EXCEPT !.m_start_trx_id_range = s.m_end_trx_id_range,
                   !.m_end_trx_id_range = s.m_end_trx_id_range + SCAN_RANGE,
                   !.m_next_trx_id_range = TRX_ID_MAX]
    ELSE CASE s.m_scan_pass = INIT_SCANNING ->
                [m_scan_pass |-> SCANNING_RW_TRX_LIST,
                 m_start_trx_id_range |-> 0,
                 m_end_trx_id_range |-> SCAN_RANGE,
                 m_next_trx_id_range |-> TRX_ID_MAX]
           [] s.m_scan_pass = SCANNING_RW_TRX_LIST ->
                [m_scan_pass |-> SCANNING_MYSQL_TRX_LIST,
                 m_start_trx_id_range |-> 0,
                 m_end_trx_id_range |-> SCAN_RANGE,
                 m_next_trx_id_range |-> TRX_ID_MAX]
           [] s.m_scan_pass = SCANNING_MYSQL_TRX_LIST ->
                [s EXCEPT !.m_scan_pass = DONE_SCANNING]
           [] OTHER -> [s EXCEPT !.m_scan_pass = UT_ERROR]

\* prepare_next_scan that clears the hint and leaves the range where it is.
prepare_next_scan_same_range(s) ==
    IF s.m_next_trx_id_range # TRX_ID_MAX
    THEN [s EXCEPT !.m_next_trx_id_range = TRX_ID_MAX]
    ELSE CASE s.m_scan_pass = INIT_SCANNING ->
                [m_scan_pass |-> SCANNING_RW_TRX_LIST,
                 m_start_trx_id_range |-> 0,
                 m_end_trx_id_range |-> SCAN_RANGE,
                 m_next_trx_id_range |-> TRX_ID_MAX]
           [] s.m_scan_pass = SCANNING_RW_TRX_LIST ->
                [m_scan_pass |-> SCANNING_MYSQL_TRX_LIST,
                 m_start_trx_id_range |-> 0,
                 m_end_trx_id_range |-> SCAN_RANGE,
                 m_next_trx_id_range |-> TRX_ID_MAX]
           [] s.m_scan_pass = SCANNING_MYSQL_TRX_LIST ->
                [s EXCEPT !.m_scan_pass = DONE_SCANNING]
           [] OTHER -> [s EXCEPT !.m_scan_pass = UT_ERROR]

\* prepare_next_scan whose next range starts with the hint itself.
prepare_next_scan_unaligned(s) ==
    IF s.m_next_trx_id_range # TRX_ID_MAX
    THEN [s EXCEPT !.m_start_trx_id_range = s.m_next_trx_id_range,
                   !.m_end_trx_id_range = s.m_next_trx_id_range + SCAN_RANGE,
                   !.m_next_trx_id_range = TRX_ID_MAX]
    ELSE CASE s.m_scan_pass = INIT_SCANNING ->
                [m_scan_pass |-> SCANNING_RW_TRX_LIST,
                 m_start_trx_id_range |-> 0,
                 m_end_trx_id_range |-> SCAN_RANGE,
                 m_next_trx_id_range |-> TRX_ID_MAX]
           [] s.m_scan_pass = SCANNING_RW_TRX_LIST ->
                [m_scan_pass |-> SCANNING_MYSQL_TRX_LIST,
                 m_start_trx_id_range |-> 0,
                 m_end_trx_id_range |-> SCAN_RANGE,
                 m_next_trx_id_range |-> TRX_ID_MAX]
           [] s.m_scan_pass = SCANNING_MYSQL_TRX_LIST ->
                [s EXCEPT !.m_scan_pass = DONE_SCANNING]
           [] OTHER -> [s EXCEPT !.m_scan_pass = UT_ERROR]

prepare_next_scan(s) ==
    IF s.m_next_trx_id_range # TRX_ID_MAX
    THEN LET start == s.m_next_trx_id_range
                        - (s.m_next_trx_id_range % SCAN_RANGE)
         IN  [s EXCEPT !.m_start_trx_id_range = start,
                       !.m_end_trx_id_range = start + SCAN_RANGE,
                       !.m_next_trx_id_range = TRX_ID_MAX]
    ELSE CASE s.m_scan_pass = INIT_SCANNING ->
                [m_scan_pass |-> SCANNING_RW_TRX_LIST,
                 m_start_trx_id_range |-> 0,
                 m_end_trx_id_range |-> SCAN_RANGE,
                 m_next_trx_id_range |-> TRX_ID_MAX]
           [] s.m_scan_pass = SCANNING_RW_TRX_LIST ->
                [m_scan_pass |-> SCANNING_MYSQL_TRX_LIST,
                 m_start_trx_id_range |-> 0,
                 m_end_trx_id_range |-> SCAN_RANGE,
                 m_next_trx_id_range |-> TRX_ID_MAX]
           [] s.m_scan_pass = SCANNING_MYSQL_TRX_LIST ->
                [s EXCEPT !.m_scan_pass = DONE_SCANNING]
           [] OTHER -> [s EXCEPT !.m_scan_pass = UT_ERROR]

\* trx_id_in_range that takes as hint any id below it that is out of the
\* range, also one below the range.
trx_id_in_range_no_lower_bound(s, trx_id) ==
    IF s.m_start_trx_id_range <= trx_id /\ trx_id < s.m_end_trx_id_range
    THEN [in_range |-> TRUE, state |-> s]
    ELSE IF trx_id < s.m_next_trx_id_range
    THEN [in_range |-> FALSE,
          state |-> [s EXCEPT !.m_next_trx_id_range = trx_id]]
    ELSE [in_range |-> FALSE, state |-> s]

\* trx_id_in_range whose range includes its end.
trx_id_in_range_inclusive_end(s, trx_id) ==
    IF s.m_start_trx_id_range <= trx_id /\ trx_id <= s.m_end_trx_id_range
    THEN [in_range |-> TRUE, state |-> s]
    ELSE IF s.m_end_trx_id_range <= trx_id /\ trx_id < s.m_next_trx_id_range
    THEN [in_range |-> FALSE,
          state |-> [s EXCEPT !.m_next_trx_id_range = trx_id]]
    ELSE [in_range |-> FALSE, state |-> s]

\* The value returned, and the scan state after the side effect.
trx_id_in_range(s, trx_id) ==
    IF s.m_start_trx_id_range <= trx_id /\ trx_id < s.m_end_trx_id_range
    THEN [in_range |-> TRUE, state |-> s]
    ELSE IF s.m_end_trx_id_range <= trx_id /\ trx_id < s.m_next_trx_id_range
    THEN [in_range |-> FALSE,
          state |-> [s EXCEPT !.m_next_trx_id_range = trx_id]]
    ELSE [in_range |-> FALSE, state |-> s]

\* discard_trx that keeps every started transaction of the MySQL list.
discard_trx_started_only(trx, read_write) == ~trx_is_started(trx)

discard_trx(trx, read_write) ==
    IF ~trx_is_started(trx) THEN TRUE
    ELSE IF ~read_write /\ trx.id # 0 /\ ~trx.read_only THEN TRUE
    ELSE FALSE

\* The position in trx_list of the transaction found, 0 for NULL: the
\* first match of the positions lo..hi, searched in list order.
RECURSIVE fetch_trx_in_range(_, _, _, _, _)
fetch_trx_in_range(trx_id, read_write, trx_list, lo, hi) ==
    IF lo > hi THEN 0
    ELSE IF lo = hi
    THEN IF discard_trx(trx_list[lo], read_write) THEN 0
         ELSE IF trx_id = trx_get_id_for_print(trx_list[lo]) THEN lo
         ELSE 0
    ELSE LET mid == (lo + hi) \div 2
             first == fetch_trx_in_range(trx_id, read_write, trx_list, lo, mid)
         IN  IF first # 0 THEN first
             ELSE fetch_trx_in_range(trx_id, read_write, trx_list, mid + 1, hi)

\* fetch_trx_in_trx_list that searches trx_sys->rw_trx_list only.
fetch_trx_in_trx_list_rw_only(trx_id, read_write, trx_list) ==
    IF read_write
    THEN fetch_trx_in_range(trx_id, read_write, trx_list, 1, Len(trx_list))
    ELSE 0

fetch_trx_in_trx_list(trx_id, read_write, trx_list) ==
    fetch_trx_in_range(trx_id, read_write, trx_list, 1, Len(trx_list))

(***************************************************************************)
(* The container (PSI_server_data_lock_container and                       *)
(* PSI_server_data_lock_wait_container): its accept_* predicates, given by *)
(* what they reject.                                                       *)
(***************************************************************************)
AcceptAll ==
    [engine |-> TRUE, no_trx_id |-> {}, no_thread_id |-> {},
     no_object |-> {}, no_lock_id |-> {},
     no_blocking_trx_id |-> {}, no_blocking_thread_id |-> {},
     no_blocking_lock_id |-> {}]
RejectEngine == [AcceptAll EXCEPT !.engine = FALSE]

accept_engine(container) == container.engine
accept_transaction_id(container, trx_id) == trx_id \notin container.no_trx_id
accept_thread_id_event_id(container, thread_id, event_id) ==
    thread_id \notin container.no_thread_id
accept_object(container, table) == table \notin container.no_object
accept_lock_id(container, engine_lock_id) ==
    engine_lock_id \notin container.no_lock_id
accept_requesting_transaction_id(container, trx_id) ==
    trx_id \notin container.no_trx_id
accept_requesting_thread_id_event_id(container, thread_id, event_id) ==
    thread_id \notin container.no_thread_id
accept_requesting_lock_id(container, engine_lock_id) ==
    engine_lock_id \notin container.no_lock_id
accept_blocking_transaction_id(container, trx_id) ==
    trx_id \notin container.no_blocking_trx_id
accept_blocking_thread_id_event_id(container, thread_id, event_id) ==
    thread_id \notin container.no_blocking_thread_id
accept_blocking_lock_id(container, engine_lock_id) ==
    engine_lock_id \notin container.no_blocking_lock_id

(***************************************************************************)
(* Innodb_data_lock_iterator::scan_trx.  The filter f is the result of     *)
(* scan_lock_id when with_filter.  The result is the sequence of rows      *)
(* handed to add_lock_row; found is its length.                            *)
(***************************************************************************)
NoFilter == ScanFailed

lock_row(lock, engine_lock_id, trx_id, index_name, lock_status_str, lock_data_str) ==
    [engine_lock_id |-> engine_lock_id,
     trx_id |-> trx_id,
     thread_id |-> lock_get_psi_event(lock).thread_id,
     event_id |-> lock_get_psi_event(lock).event_id,
     object |-> lock_get_table_name(lock),
     index_name |-> index_name,
     identity |-> lock.addr,
     lock_mode |-> lock.mode,
     lock_type |-> IF lock_get_type(lock) = LOCK_TABLE THEN "TABLE" ELSE "RECORD",
     lock_status |-> lock_status_str,
     lock_data |-> lock_data_str]

\* One call the enumerator makes on the container, or of p_s_fill_lock_data,
\* with what it returned: lock is the address of the lock it is about (0
\* for accept_transaction_id), row the row passed to add_lock_row.
SinkCall(op, trx_id, lock, heap_no, ret, row) ==
    [op |-> op, trx_id |-> trx_id, lock |-> lock, heap_no |-> heap_no,
     ret |-> ret, row |-> row]

\* The rows passed to add_lock_row by a sequence of calls.
RECURSIVE add_lock_rows(_)
add_lock_rows(calls) ==
    IF calls = <<>> THEN <<>>
    ELSE calls[1].row \o add_lock_rows(Tail(calls))

\* The calls made for one heap number of a record lock that passed the
\* filter.
rec_lock_bit_calls(container, with_lock_data, trx_id, lock, heap_no, lock_status_str) ==
    LET engine_lock_id == print_record_lock_id(lock, heap_no)
        accepted == accept_lock_id(container, engine_lock_id)
    IN  <<SinkCall("accept_lock_id", trx_id, lock.addr, heap_no, accepted,
                   <<>>)>>
        \o (IF accepted /\ with_lock_data
            THEN <<SinkCall("p_s_fill_lock_data", trx_id, lock.addr, heap_no,
                            TRUE, <<>>)>>
            ELSE <<>>)
        \o (IF accepted
            THEN <<SinkCall("add_lock_row", trx_id, lock.addr, heap_no, TRUE,
                            <<lock_row(lock, engine_lock_id, trx_id, "index",
                                       lock_status_str,
                                       IF with_lock_data THEN "lock_data"
                                       ELSE "NULL")>>)>>
            ELSE <<>>)

\* scan_rec_lock_bits without the heap number of the filter.
RECURSIVE scan_rec_lock_bits_no_heap_filter(_, _, _, _, _, _, _, _)
scan_rec_lock_bits_no_heap_filter(container, with_lock_data, trx_id, lock, heap_no, with_filter, f, lock_status_str) ==
    IF heap_no = ULINT_UNDEFINED THEN <<>>
    ELSE rec_lock_bit_calls(container, with_lock_data, trx_id, lock, heap_no,
                            lock_status_str)
         \o scan_rec_lock_bits_no_heap_filter(
                container, with_lock_data, trx_id, lock,
                lock_rec_find_next_set_bit(lock, heap_no),
                with_filter, f, lock_status_str)

\* The while loop over the set bits that ends after the first of them.
scan_rec_lock_bits_first_bit_only(container, with_lock_data, trx_id, lock, heap_no, with_filter, f, lock_status_str) ==
    IF heap_no = ULINT_UNDEFINED THEN <<>>
    ELSE IF ~with_filter \/ heap_no = f.heap_id
    THEN rec_lock_bit_calls(container, with_lock_data, trx_id, lock, heap_no,
                            lock_status_str)
    ELSE <<>>

\* The while loop over the set bits of a record lock, from heap_no on: the
\* calls it makes.
RECURSIVE scan_rec_lock_bits(_, _, _, _, _, _, _, _)
scan_rec_lock_bits(container, with_lock_data, trx_id, lock, heap_no, with_filter, f, lock_status_str) ==
    IF heap_no = ULINT_UNDEFINED THEN <<>>
    ELSE (IF ~with_filter \/ heap_no = f.heap_id
          THEN rec_lock_bit_calls(container, with_lock_data, trx_id, lock,
                                  heap_no, lock_status_str)
          ELSE <<>>)
         \o scan_rec_lock_bits(container, with_lock_data, trx_id, lock,
                               lock_rec_find_next_set_bit(lock, heap_no),
                               with_filter, f, lock_status_str)

\* The for loop over the locks of trx with accept_object asked before
\* accept_thread_id_event_id.
RECURSIVE scan_trx_locks_object_first(_, _, _, _, _, _, _)
scan_trx_locks_object_first(container, with_lock_data, trx, with_filter, f, k, lock_status_str) ==
    IF k > Len(trx.locks) THEN <<>>
    ELSE
    LET lock == trx.locks[k]
        record_type == lock_get_type(lock)
        trx_id == trx_get_id_for_print(trx)
        filtered ==
            /\ with_filter
            /\ \/ record_type # f.type
               \/ /\ record_type = LOCK_TABLE
                  /\ lock_get_table_id(lock) # f.table_id
               \/ /\ record_type = LOCK_REC
                  /\ \/ lock_rec_get_space_id(lock) # f.space_id
                     \/ lock_rec_get_page_no(lock) # f.page_id
        psi == lock_get_psi_event(lock)
        object_ok == accept_object(container, lock_get_table_name(lock))
        thread_ok ==
            accept_thread_id_event_id(container, psi.thread_id, psi.event_id)
        asked ==
            <<SinkCall("accept_object", trx_id, lock.addr, 0, object_ok,
                       <<>>)>>
            \o (IF object_ok
                THEN <<SinkCall("accept_thread_id_event_id", trx_id,
                                lock.addr, 0, thread_ok, <<>>)>>
                ELSE <<>>)
        status == IF lock.addr = trx.wait_lock THEN "WAITING"
                  ELSE lock_status_str
        here ==
            IF record_type = LOCK_TABLE
            THEN LET accepted ==
                         accept_lock_id(container, print_table_lock_id(lock))
                 IN  <<SinkCall("accept_lock_id", trx_id, lock.addr, 0,
                                accepted, <<>>)>>
                     \o (IF accepted
                         THEN <<SinkCall(
                                  "add_lock_row", trx_id, lock.addr, 0, TRUE,
                                  <<lock_row(lock, print_table_lock_id(lock),
                                             trx_id, "NULL", status,
                                             "NULL")>>)>>
                         ELSE <<>>)
            ELSE scan_rec_lock_bits(container, with_lock_data, trx_id, lock,
                                    lock_rec_find_set_bit(lock),
                                    with_filter, f, status)
    IN  IF filtered
        THEN scan_trx_locks_object_first(container, with_lock_data, trx,
                                         with_filter, f, k + 1,
                                         lock_status_str)
        ELSE IF ~thread_ok \/ ~object_ok
        THEN asked \o scan_trx_locks_object_first(
                          container, with_lock_data, trx, with_filter, f,
                          k + 1, lock_status_str)
        ELSE asked \o here
             \o scan_trx_locks_object_first(container, with_lock_data, trx,
                                            with_filter, f, k + 1, status)

\* The for loop over the locks of trx, from the k-th on: the calls it makes.
\* lock_status_str is declared outside the loop: it is carried from one
\* lock to the next.
RECURSIVE scan_trx_locks(_, _, _, _, _, _, _)
scan_trx_locks(container, with_lock_data, trx, with_filter, f, k, lock_status_str) ==
    IF k > Len(trx.locks) THEN <<>>
    ELSE
    LET lock == trx.locks[k]
        record_type == lock_get_type(lock)
        trx_id == trx_get_id_for_print(trx)
        filtered ==
            /\ with_filter
            /\ \/ record_type # f.type
               \/ /\ record_type = LOCK_TABLE
                  /\ lock_get_table_id(lock) # f.table_id
               \/ /\ record_type = LOCK_REC
                  /\ \/ lock_rec_get_space_id(lock) # f.space_id
                     \/ lock_rec_get_page_no(lock) # f.page_id
        psi == lock_get_psi_event(lock)
        thread_ok ==
            accept_thread_id_event_id(container, psi.thread_id, psi.event_id)
        object_ok == accept_object(container, lock_get_table_name(lock))
        asked ==
            <<SinkCall("accept_thread_id_event_id", trx_id, lock.addr, 0,
                       thread_ok, <<>>)>>
            \o (IF thread_ok
                THEN <<SinkCall("accept_object", trx_id, lock.addr, 0,
                                object_ok, <<>>)>>
                ELSE <<>>)
        status == IF lock.addr = trx.wait_lock THEN "WAITING"
                  ELSE lock_status_str
        here ==
            IF record_type = LOCK_TABLE
            THEN LET accepted ==
                         accept_lock_id(container, print_table_lock_id(lock))
                 IN  <<SinkCall("accept_lock_id", trx_id, lock.addr, 0,
                                accepted, <<>>)>>
                     \o (IF accepted
                         THEN <<SinkCall(
                                  "add_lock_row", trx_id, lock.addr, 0, TRUE,
                                  <<lock_row(lock, print_table_lock_id(lock),
                                             trx_id, "NULL", status,
                                             "NULL")>>)>>
                         ELSE <<>>)
            ELSE scan_rec_lock_bits(container, with_lock_data, trx_id, lock,
                                    lock_rec_find_set_bit(lock),
                                    with_filter, f, status)
    IN  IF filtered
        THEN scan_trx_locks(container, with_lock_data, trx, with_filter, f,
                            k + 1, lock_status_str)
        ELSE IF ~thread_ok \/ ~object_ok
        THEN asked \o scan_trx_locks(container, with_lock_data, trx,
                                     with_filter, f, k + 1, lock_status_str)
        ELSE asked \o here
             \o scan_trx_locks(container, with_lock_data, trx, with_filter,
                               f, k + 1, status)

\* The calls of one scan_trx, accept_transaction_id first.
lock_scan_trx_calls(container, with_lock_data, trx, with_filter, f) ==
    LET trx_id == trx_get_id_for_print(trx)
        accepted == accept_transaction_id(container, trx_id)
    IN  <<SinkCall("accept_transaction_id", trx_id, 0, 0, accepted, <<>>)>>
        \o (IF accepted
            THEN scan_trx_locks(container, with_lock_data, trx, with_filter,
                                f, 1, "GRANTED")
            ELSE <<>>)

\* The rows scan_trx adds; found is their number.
lock_scan_trx(container, with_lock_data, trx, with_filter, f) ==
    add_lock_rows(lock_scan_trx_calls(container, with_lock_data, trx,
                                      with_filter, f))

(***************************************************************************)
(* Innodb_data_lock_wait_iterator::scan_trx.  fr and fb are the requesting *)
(* and the blocking filter; queue is the set of the locks of the lock      *)
(* system.  The result is the sequence of rows handed to add_lock_wait_row.*)
(***************************************************************************)
\* trx->lock.que_state == TRX_QUE_LOCK_WAIT: the transaction waits for
\* trx->lock.wait_lock (ut_a(wait_lock != NULL)).
trx_que_lock_wait(trx) == trx.wait_lock # 0

wait_lock_of(trx) ==
    CHOOSE l \in {trx.locks[k] : k \in 1..Len(trx.locks)} :
        l.addr = trx.wait_lock

\* lock_queue_iterator_reset(wait_lock, ULINT_UNDEFINED) and the locks
\* lock_queue_iterator_get_prev then returns: the locks queued before
\* wait_lock on its table, or on its page with its heap number set.
lock_queue_prev(wait_lock, queue) ==
    {l \in queue :
        /\ l.addr < wait_lock.addr
        /\ l.type = wait_lock.type
        /\ IF wait_lock.type = LOCK_TABLE
           THEN l.table_id = wait_lock.table_id
           ELSE /\ l.space_id = wait_lock.space_id
                /\ l.page_no = wait_lock.page_no
                /\ lock_rec_find_set_bit(wait_lock) \in l.bits}

\* The lock manager's conflict predicate.
lock_has_to_wait(wait_lock, curr_lock) ==
    /\ wait_lock.trx_id # curr_lock.trx_id
    /\ ~(wait_lock.mode = "S" /\ curr_lock.mode = "S")

lock_wait_row(wait_lock, requesting_engine_lock_id, requesting_trx_id, curr_lock, blocking_engine_lock_id) ==
    [requesting_engine_lock_id |-> requesting_engine_lock_id,
     requesting_trx_id |-> requesting_trx_id,
     requesting_thread_id |-> lock_get_psi_event(wait_lock).thread_id,
     requesting_event_id |-> lock_get_psi_event(wait_lock).event_id,
     requesting_identity |-> wait_lock.addr,
     blocking_engine_lock_id |-> blocking_engine_lock_id,
     blocking_trx_id |-> lock_get_trx_id(curr_lock),
     blocking_thread_id |-> lock_get_psi_event(curr_lock).thread_id,
     blocking_event_id |-> lock_get_psi_event(curr_lock).event_id,
     blocking_identity |-> curr_lock.addr]

\* scan_wait_queue without the lock_has_to_wait test.
RECURSIVE scan_wait_queue_no_conflict_check(_, _, _, _, _, _, _)
scan_wait_queue_no_conflict_check(container, trx_id, wait_lock, heap_no, with_filter, fb, prev) ==
    IF prev = {} THEN <<>>
    ELSE
    LET curr_lock == CHOOSE l \in prev : \A m \in prev : m.addr <= l.addr
        psi == lock_get_psi_event(curr_lock)
        blocking_engine_lock_id == print_lock_id(curr_lock, heap_no)
        here ==
            IF /\ ~with_filter
               /\ accept_blocking_transaction_id(
                      container, lock_get_trx_id(curr_lock))
               /\ accept_blocking_thread_id_event_id(
                      container, psi.thread_id, psi.event_id)
               /\ accept_blocking_lock_id(container, blocking_engine_lock_id)
            THEN <<lock_wait_row(wait_lock,
                                 print_lock_id(wait_lock, heap_no), trx_id,
                                 curr_lock, blocking_engine_lock_id)>>
            ELSE <<>>
    IN  here \o scan_wait_queue_no_conflict_check(
                    container, trx_id, wait_lock, heap_no, with_filter, fb,
                    prev \ {curr_lock})

\* The for loop over the queue, from the latest lock of prev backwards.
RECURSIVE scan_wait_queue(_, _, _, _, _, _, _)
scan_wait_queue(container, trx_id, wait_lock, heap_no, with_filter, fb, prev) ==
    IF prev = {} THEN <<>>
    ELSE
    LET curr_lock == CHOOSE l \in prev : \A m \in prev : m.addr <= l.addr
        blocking_record_type == lock_get_type(curr_lock)
        filtered ==
            /\ with_filter
            /\ \/ blocking_record_type # fb.type
               \/ /\ blocking_record_type = LOCK_TABLE
                  /\ lock_get_table_id(curr_lock) # fb.table_id
               \/ /\ blocking_record_type = LOCK_REC
                  /\ \/ lock_rec_get_space_id(curr_lock) # fb.space_id
                     \/ lock_rec_get_page_no(curr_lock) # fb.page_id
                     \/ lock_rec_find_set_bit(curr_lock) # fb.heap_id
        psi == lock_get_psi_event(curr_lock)
        blocking_engine_lock_id == print_lock_id(curr_lock, heap_no)
        here ==
            IF /\ ~filtered
               /\ lock_has_to_wait(wait_lock, curr_lock)
               /\ accept_blocking_transaction_id(
                      container, lock_get_trx_id(curr_lock))
               /\ accept_blocking_thread_id_event_id(
                      container, psi.thread_id, psi.event_id)
               /\ accept_blocking_lock_id(container, blocking_engine_lock_id)
            THEN <<lock_wait_row(wait_lock,
                                 print_lock_id(wait_lock, heap_no), trx_id,
                                 curr_lock, blocking_engine_lock_id)>>
            ELSE <<>>
    IN  here \o scan_wait_queue(container, trx_id, wait_lock, heap_no,
                                with_filter, fb, prev \ {curr_lock})

wait_scan_trx(container, trx, with_filter, fr, fb, queue) ==
    IF ~trx_que_lock_wait(trx) THEN <<>>
    ELSE
    LET wait_lock == wait_lock_of(trx)
        requesting_record_type == lock_get_type(wait_lock)
        filtered ==
            /\ with_filter
            /\ \/ requesting_record_type # fr.type
               \/ /\ requesting_record_type = LOCK_TABLE
                  /\ lock_get_table_id(wait_lock) # fr.table_id
               \/ /\ requesting_record_type = LOCK_REC
                  /\ \/ lock_rec_get_space_id(wait_lock) # fr.space_id
                     \/ lock_rec_get_page_no(wait_lock) # fr.page_id
                     \/ lock_rec_find_set_bit(wait_lock) # fr.heap_id
        requesting_trx_id == trx_get_id_for_print(trx)
        psi == lock_get_psi_event(wait_lock)
        heap_no == IF requesting_record_type = LOCK_REC
                   THEN lock_rec_find_set_bit(wait_lock) ELSE 0
    IN  IF \/ filtered
           \/ ~accept_requesting_transaction_id(container, requesting_trx_id)
           \/ ~accept_requesting_thread_id_event_id(
                   container, psi.thread_id, psi.event_id)
           \/ ~accept_requesting_lock_id(
                   container, print_lock_id(wait_lock, heap_no))
        THEN <<>>
        ELSE scan_wait_queue(container, requesting_trx_id, wait_lock, heap_no,
                             with_filter, fb,
                             lock_queue_prev(wait_lock, queue))

(***************************************************************************)
(* scan_trx_list of both iterators: one traversal of a trx list, from      *)
(* position k on.  The result holds the rows added, the positions of the   *)
(* transactions scan_trx was run on, and the scan state after the          *)
(* trx_id_in_range calls.                                                  *)
(***************************************************************************)
\* The traversal is a loop from the first transaction to the last; the
\* positions lo..hi are split in two halves, the second run on the scan
\* state the first one left.
RECURSIVE scan_trx_list_range(_, _, _, _, _, _, _, _, _)
scan_trx_list_range(is_wait, container, with_lock_data, read_write, trx_list, queue, s, lo, hi) ==
    IF lo > hi
    THEN [rows |-> <<>>, calls |-> <<>>, scanned |-> <<>>,
          scanned_ids |-> <<>>, state |-> s]
    ELSE IF lo = hi
    THEN LET trx == trx_list[lo]
         IN  IF discard_trx(trx, read_write)
             THEN [rows |-> <<>>, calls |-> <<>>, scanned |-> <<>>,
                   scanned_ids |-> <<>>, state |-> s]
             ELSE
             LET r == trx_id_in_range(s, trx_get_id_for_print(trx))
                 calls == IF is_wait THEN <<>>
                          ELSE lock_scan_trx_calls(container, with_lock_data,
                                                   trx, FALSE, NoFilter)
             IN  IF ~r.in_range
                 THEN [rows |-> <<>>, calls |-> <<>>, scanned |-> <<>>,
                       scanned_ids |-> <<>>, state |-> r.state]
                 ELSE [rows |->
                         IF is_wait
                         THEN wait_scan_trx(container, trx, FALSE, NoFilter,
                                            NoFilter, queue)
                         ELSE add_lock_rows(calls),
                       calls |-> calls,
                       scanned |-> << <<get_pass(s), lo>> >>,
                       scanned_ids |->
                         << <<get_pass(s), trx_get_id_for_print(trx)>> >>,
                       state |-> r.state]
    ELSE LET mid == (lo + hi) \div 2
             first == scan_trx_list_range(is_wait, container, with_lock_data,
                                          read_write, trx_list, queue, s,
                                          lo, mid)
             second == scan_trx_list_range(is_wait, container, with_lock_data,
                                           read_write, trx_list, queue,
                                           first.state, mid + 1, hi)
         IN  [rows |-> first.rows \o second.rows,
              calls |-> first.calls \o second.calls,
              scanned |-> first.scanned \o second.scanned,
              scanned_ids |-> first.scanned_ids \o second.scanned_ids,
              state |-> second.state]

scan_trx_list(is_wait, container, with_lock_data, read_write, trx_list, queue, s) ==
    scan_trx_list_range(is_wait, container, with_lock_data, read_write,
                        trx_list, queue, s, 1, Len(trx_list))

(***************************************************************************)
(* State.                                                                  *)
(***************************************************************************)
VARIABLES
    rw_trx_list,    \* trx_sys->rw_trx_list
    mysql_trx_list, \* trx_sys->mysql_trx_list
    lock_mutex,     \* the iterator that owns the lock_sys mutex, 0 for none
    trx_sys_mutex,  \* the iterator that owns the trx_sys mutex, 0 for none
    kind,           \* iterator -> "lock" (Innodb_data_lock_iterator) or
                    \* "wait" (Innodb_data_lock_wait_iterator)
    m_scan_state,   \* iterator -> its Innodb_trx_scan_state
    pc,             \* iterator -> where its caller is in scan() / fetch()
    call,           \* iterator -> the parameters and locals of the call
    rows,           \* iterator -> the rows the call added to the container
    ret,            \* iterator -> the value the call returned
    hist,           \* iterator -> what its calls did so far (history)
    codec_pc,   \* "start", "have_id" (a string is in the buffer), "decoded"
    id_buf,     \* the engine lock id string
    id_src,     \* the lock and heap number id_buf was printed from, or NoLock
    id_out      \* what scan_lock_id returned for id_buf

codec_vars == <<codec_pc, id_buf, id_src, id_out>>
trx_sys_vars == <<rw_trx_list, mysql_trx_list>>
mutex_vars == <<lock_mutex, trx_sys_mutex>>
iter_vars == <<kind, m_scan_state, pc, call, rows, ret, hist>>
vars == <<rw_trx_list, mysql_trx_list, lock_mutex, trx_sys_mutex, kind,
          m_scan_state, pc, call, rows, ret, hist,
          codec_pc, id_buf, id_src, id_out>>

Iters == DOMAIN kind

(***************************************************************************)
(* The transactions the lists are drawn from.                              *)
(***************************************************************************)
\* RW transactions: started, with a nonzero id.
Trx1 == Trx(1, TRUE, FALSE, <<TableLock(10, 1, 7, "X")>>, 0)
Trx255 ==
    Trx(SCAN_RANGE - 1, TRUE, FALSE,
        <<RecLock(20, SCAN_RANGE - 1, 7, 3, 4, {1, 2}, "X")>>, 0)
Trx256 == Trx(SCAN_RANGE, TRUE, FALSE, <<>>, 0)
\* Waits for heap number 2 of page 3:4, held by Trx255; it has a gap lock
\* of its own on that heap number, queued before the lock it waits for.
\* The lock after the awaited one is one the transaction was given while it
\* waits (a lock inherited or moved by the lock manager).
Trx300 ==
    Trx(SCAN_RANGE + 44, TRUE, FALSE,
        <<TableLock(30, SCAN_RANGE + 44, 8, "S"),
          RecLock(35, SCAN_RANGE + 44, 7, 3, 4, {2}, "X,GAP"),
          RecLock(40, SCAN_RANGE + 44, 7, 3, 4, {2}, "X"),
          RecLock(50, SCAN_RANGE + 44, 8, 3, 9, {1}, "S")>>, 40)
\* Waits for table 7, locked by Trx1.
Trx600 ==
    Trx(2 * SCAN_RANGE + 88, TRUE, FALSE,
        <<TableLock(60, 2 * SCAN_RANGE + 88, 7, "X")>>, 60)
RwPool == {Trx1, Trx255, Trx256, Trx300, Trx600}

\* Transactions of the MySQL list: without an id, read-only, not started,
\* or read-write with an id.
Mysql0 == Trx(0, TRUE, FALSE, <<TableLock(70, 0, 8, "S")>>, 0)
Mysql260 == Trx(SCAN_RANGE + 4, TRUE, TRUE, <<TableLock(80, SCAN_RANGE + 4, 9, "S")>>, 0)
Mysql700 ==
    Trx(2 * SCAN_RANGE + 188, TRUE, FALSE,
        <<TableLock(90, 2 * SCAN_RANGE + 188, 9, "S")>>, 0)
MysqlNotStarted == Trx(0, FALSE, FALSE, <<>>, 0)
MysqlPool == {Mysql0, Mysql260, Mysql700, MysqlNotStarted}

SeqRange(s) == {s[k] : k \in 1..Len(s)}
\* The sequences without repetition of at most n elements of S.
ListsOf(S, n) ==
    {s \in UNION {[1..m -> S] : m \in 0..n} :
        \A a, b \in 1..Len(s) : a # b => s[a] # s[b]}

\* The locks of the lock system: those of the transactions of both lists.
LocksOf(trx_list) ==
    UNION {SeqRange(trx_list[k].locks) : k \in 1..Len(trx_list)}
lock_sys == LocksOf(rw_trx_list) \cup LocksOf(mysql_trx_list)

\* A transaction that waits has a lock to wait for.
HasBlocker(trx, queue) ==
    trx_que_lock_wait(trx) =>
        \E l \in lock_queue_prev(wait_lock_of(trx), queue) :
            lock_has_to_wait(wait_lock_of(trx), l)

RwLists ==
    {s \in ListsOf(RwPool, MaxRwTrx) :
        \A k \in 1..Len(s) : HasBlocker(s[k], LocksOf(s))}
MysqlLists == ListsOf(MysqlPool, MaxMysqlTrx)

(***************************************************************************)
(* The containers and the identifiers the consumers call with.             *)
(***************************************************************************)
\* A container with a condition on every column.
RejectSome ==
    [engine |-> TRUE, no_trx_id |-> {1}, no_thread_id |-> {0},
     no_object |-> {8},
     no_lock_id |-> {print_record_lock_id(Trx255.locks[1], 2)},
     no_blocking_trx_id |-> {1}, no_blocking_thread_id |-> {},
     no_blocking_lock_id |-> {}]
Containers == {AcceptAll, RejectEngine, RejectSome}

\* fetch() of the lock iterator: ids of locks that may exist, the id of a
\* lock that never does, and a malformed id.
FetchIds ==
    {print_table_lock_id(Trx1.locks[1]),
     print_record_lock_id(Trx255.locks[1], 2),
     print_table_lock_id(Mysql0.locks[1]),
     print_table_lock_id(Mysql700.locks[1]),
     <<"1", ":", "8">>,
     <<"7", "x">>}
\* fetch() of the wait iterator: <<requesting id, blocking id>>.
WaitFetchIds ==
    {<<print_record_lock_id(Trx300.locks[3], 2),
       print_record_lock_id(Trx255.locks[1], 1)>>,
     <<print_record_lock_id(Trx300.locks[3], 2),
       print_record_lock_id(Trx255.locks[1], 2)>>,
     <<print_table_lock_id(Trx600.locks[1]),
       print_table_lock_id(Trx1.locks[1])>>,
     <<print_table_lock_id(Trx1.locks[1]),
       print_table_lock_id(Trx600.locks[1])>>,
     <<<<"7", "x">>, print_table_lock_id(Trx1.locks[1])>>,
     <<print_table_lock_id(Trx600.locks[1]), <<"7", "x">>>>}

(***************************************************************************)
(* One call of scan() or fetch() on iterator i, step by step.              *)
(***************************************************************************)
\* The local trx of fetch(): the list fetch_trx found it in and its position
\* there, position 0 for NULL.  sink_calls of a call are the calls scan_trx
\* of the lock iterator has made on the container so far.
NoTrx == [read_write |-> FALSE, pos |-> 0]

NoCall ==
    [op |-> "none", container |-> AcceptAll, with_lock_data |-> FALSE,
     found |-> 0, fr |-> NoFilter, fb |-> NoFilter, trx |-> NoTrx,
     took_mutex |-> FALSE, entry_state |-> Innodb_trx_scan_state,
     sink_calls |-> <<>>]

NoHist ==
    [ncalls |-> 0,          \* scan() calls begun, up to MaxCalls
     scanned |-> <<>>,      \* <<pass, position>> of each scan_trx of scan()
     scanned_ids |-> <<>>,  \* <<pass, transaction id>> of each of them
     returned_done |-> "no",\* a scan() has returned true to its caller:
                            \* "rejected" (engine name rejected) or
                            \* "finished" (DONE_SCANNING)
     all_accepted |-> TRUE] \* every scan() so far had an accept-all container

\* The first lines of scan() without the test of DONE_SCANNING.
scan_entry_no_done_check(s, container) ==
    IF get_pass(s) = INIT_SCANNING /\ ~accept_engine(container)
    THEN [ret_now |-> TRUE, state |-> s]
    ELSE
    LET s1 == IF get_pass(s) = INIT_SCANNING THEN prepare_next_scan(s) ELSE s
    IN  [ret_now |-> FALSE, state |-> s1]

\* The first lines of scan() with prepare_next_scan() before accept_engine.
scan_entry_advance_first(s, container) ==
    LET s1 == IF get_pass(s) = INIT_SCANNING THEN prepare_next_scan(s) ELSE s
    IN  IF get_pass(s) = INIT_SCANNING /\ ~accept_engine(container)
        THEN [ret_now |-> TRUE, state |-> s1]
        ELSE [ret_now |-> get_pass(s1) = DONE_SCANNING, state |-> s1]

\* The first lines of scan(): the value returned at once (ret_now) or the
\* scan state with which the call goes on to the mutexes.
scan_entry(s, container) ==
    IF get_pass(s) = INIT_SCANNING /\ ~accept_engine(container)
    THEN [ret_now |-> TRUE, state |-> s]
    ELSE
    LET s1 == IF get_pass(s) = INIT_SCANNING THEN prepare_next_scan(s) ELSE s
    IN  [ret_now |-> get_pass(s1) = DONE_SCANNING, state |-> s1]

\* The condition of the while loops without the test of found.
scan_loop_cond_ignore_found(s, found) ==
    get_pass(s) \in {SCANNING_RW_TRX_LIST, SCANNING_MYSQL_TRX_LIST}

\* The condition of the while loops without the test of the pass.
scan_loop_cond_any_pass(s, found) == found = 0

\* The condition of the two while loops of scan().
scan_loop_cond(s, found) ==
    /\ get_pass(s) \in {SCANNING_RW_TRX_LIST, SCANNING_MYSQL_TRX_LIST}
    /\ found = 0

\* scan() returning whether the pass is DONE_SCANNING.
scan_return_pass_done(s) == get_pass(s) = DONE_SCANNING

\* The value scan() returns after it released the mutexes.
scan_return(s) == FALSE

ScanBegin(i) ==
    /\ pc[i] = "idle"
    /\ \E container \in Containers, with_lock_data \in BOOLEAN :
        LET e == scan_entry(m_scan_state[i], container)
        IN  /\ kind[i] = "wait" => ~with_lock_data
            /\ m_scan_state' = [m_scan_state EXCEPT ![i] = e.state]
            /\ call' = [call EXCEPT ![i] =
                   [NoCall EXCEPT !.op = "scan", !.container = container,
                                  !.with_lock_data = with_lock_data,
                                  !.entry_state = m_scan_state[i]]]
            /\ pc' = [pc EXCEPT ![i] =
                   IF e.ret_now THEN "returned" ELSE "lock_mutex_enter"]
            /\ ret' = [ret EXCEPT ![i] = e.ret_now]
            /\ hist' = [hist EXCEPT
                   ![i].ncalls = IF @ < MaxCalls THEN @ + 1 ELSE @,
                   ![i].all_accepted = @ /\ container = AcceptAll]
    /\ rows' = [rows EXCEPT ![i] = <<>>]
    /\ UNCHANGED <<trx_sys_vars, mutex_vars, kind, codec_vars>>

\* The first lines of fetch(): accept_engine, then scan_lock_id.
LockFetchBegin(i) ==
    /\ pc[i] = "idle"
    /\ kind[i] = "lock"
    /\ \E container \in Containers, engine_lock_id \in FetchIds,
          with_lock_data \in BOOLEAN :
        LET f == scan_lock_id(engine_lock_id)
            now == ~accept_engine(container) \/ f.type = 0
        IN  /\ call' = [call EXCEPT ![i] =
                   [NoCall EXCEPT !.op = "fetch", !.container = container,
                                  !.with_lock_data = with_lock_data,
                                  !.fr = IF accept_engine(container)
                                         THEN f ELSE NoFilter,
                                  !.entry_state = m_scan_state[i]]]
            /\ pc' = [pc EXCEPT ![i] =
                   IF now THEN "returned" ELSE "lock_mutex_enter"]
    /\ ret' = [ret EXCEPT ![i] = TRUE]
    /\ rows' = [rows EXCEPT ![i] = <<>>]
    /\ UNCHANGED <<trx_sys_vars, mutex_vars, kind, m_scan_state, hist,
                   codec_vars>>

\* The first lines of fetch() of the wait iterator without the test of the
\* blocking record type.
WaitFetchBegin_no_blocking_check(i) ==
    /\ pc[i] = "idle"
    /\ kind[i] = "wait"
    /\ \E container \in Containers, ids \in WaitFetchIds :
        LET fr == scan_lock_id(ids[1])
            fb == scan_lock_id(ids[2])
            now == ~accept_engine(container) \/ fr.type = 0
        IN  /\ call' = [call EXCEPT ![i] =
                   [NoCall EXCEPT !.op = "fetch", !.container = container,
                                  !.fr = IF accept_engine(container)
                                         THEN fr ELSE NoFilter,
                                  !.fb = IF accept_engine(container)
                                            /\ fr.type # 0
                                         THEN fb ELSE NoFilter,
                                  !.entry_state = m_scan_state[i]]]
            /\ pc' = [pc EXCEPT ![i] =
                   IF now THEN "returned" ELSE "lock_mutex_enter"]
    /\ ret' = [ret EXCEPT ![i] = TRUE]
    /\ rows' = [rows EXCEPT ![i] = <<>>]
    /\ UNCHANGED <<trx_sys_vars, mutex_vars, kind, m_scan_state, hist,
                   codec_vars>>

WaitFetchBegin(i) ==
    /\ pc[i] = "idle"
    /\ kind[i] = "wait"
    /\ \E container \in Containers, ids \in WaitFetchIds :
        LET fr == scan_lock_id(ids[1])
            fb == scan_lock_id(ids[2])
            now == ~accept_engine(container) \/ fr.type = 0 \/ fb.type = 0
        IN  /\ call' = [call EXCEPT ![i] =
                   [NoCall EXCEPT !.op = "fetch", !.container = container,
                                  !.fr = IF accept_engine(container)
                                         THEN fr ELSE NoFilter,
                                  !.fb = IF accept_engine(container)
                                            /\ fr.type # 0
                                         THEN fb ELSE NoFilter,
                                  !.entry_state = m_scan_state[i]]]
            /\ pc' = [pc EXCEPT ![i] =
                   IF now THEN "returned" ELSE "lock_mutex_enter"]
    /\ ret' = [ret EXCEPT ![i] = TRUE]
    /\ rows' = [rows EXCEPT ![i] = <<>>]
    /\ UNCHANGED <<trx_sys_vars, mutex_vars, kind, m_scan_state, hist,
                   codec_vars>>

\* The first mutex taken is the trx_sys mutex.
LockMutexEnter_trx_sys_first(i) ==
    /\ pc[i] = "lock_mutex_enter"
    /\ trx_sys_mutex = 0
    /\ trx_sys_mutex' = i
    /\ pc' = [pc EXCEPT ![i] = "trx_sys_mutex_enter"]
    /\ call' = [call EXCEPT ![i].took_mutex = TRUE]
    /\ UNCHANGED <<trx_sys_vars, lock_mutex, kind, m_scan_state, rows, ret,
                   hist, codec_vars>>

\* lock_mutex_enter() that does not wait for the mutex.
LockMutexEnter_no_wait(i) ==
    /\ pc[i] = "lock_mutex_enter"
    /\ lock_mutex' = i
    /\ pc' = [pc EXCEPT ![i] = "trx_sys_mutex_enter"]
    /\ call' = [call EXCEPT ![i].took_mutex = TRUE]
    /\ UNCHANGED <<trx_sys_vars, trx_sys_mutex, kind, m_scan_state, rows, ret,
                   hist, codec_vars>>

\* lock_mutex_enter(): waits until the mutex is free.
LockMutexEnter(i) ==
    /\ pc[i] = "lock_mutex_enter"
    /\ lock_mutex = 0
    /\ lock_mutex' = i
    /\ pc' = [pc EXCEPT ![i] = "trx_sys_mutex_enter"]
    /\ call' = [call EXCEPT ![i].took_mutex = TRUE]
    /\ UNCHANGED <<trx_sys_vars, trx_sys_mutex, kind, m_scan_state, rows, ret,
                   hist, codec_vars>>

TrxSysMutexEnter(i) ==
    /\ pc[i] = "trx_sys_mutex_enter"
    /\ trx_sys_mutex = 0
    /\ trx_sys_mutex' = i
    /\ pc' = [pc EXCEPT ![i] =
           IF call[i].op # "scan" THEN "fetch_trx"
           ELSE IF scan_loop_cond(m_scan_state[i], call[i].found)
           THEN "scan_trx_list"
           ELSE "trx_sys_mutex_exit"]
    /\ UNCHANGED <<trx_sys_vars, lock_mutex, kind, m_scan_state, call, rows,
                   ret, hist, codec_vars>>

\* The body of a while loop of scan() up to prepare_next_scan(): one
\* traversal of the list of the current pass.
ScanTrxList(i) ==
    /\ pc[i] = "scan_trx_list"
    /\ LET s == m_scan_state[i]
           read_write == get_pass(s) = SCANNING_RW_TRX_LIST
           r == scan_trx_list(kind[i] = "wait", call[i].container,
                              call[i].with_lock_data, read_write,
                              IF read_write THEN rw_trx_list
                              ELSE mysql_trx_list,
                              lock_sys, s)
       IN  /\ m_scan_state' = [m_scan_state EXCEPT ![i] = r.state]
           /\ call' = [call EXCEPT ![i].found = Len(r.rows),
                                    ![i].sink_calls = @ \o r.calls]
           /\ rows' = [rows EXCEPT ![i] = @ \o r.rows]
           /\ hist' = [hist EXCEPT ![i].scanned = @ \o r.scanned,
                                    ![i].scanned_ids = @ \o r.scanned_ids]
    /\ pc' = [pc EXCEPT ![i] = "prepare_next_scan"]
    /\ UNCHANGED <<trx_sys_vars, mutex_vars, kind, ret, codec_vars>>

\* prepare_next_scan() at the end of the loop body, and the loop conditions
\* that follow it.
PrepareNextScan(i) ==
    /\ pc[i] = "prepare_next_scan"
    /\ LET s == prepare_next_scan(m_scan_state[i])
       IN  /\ m_scan_state' = [m_scan_state EXCEPT ![i] = s]
           /\ pc' = [pc EXCEPT ![i] =
                  IF scan_loop_cond(s, call[i].found) THEN "scan_trx_list"
                  ELSE "trx_sys_mutex_exit"]
    /\ UNCHANGED <<trx_sys_vars, mutex_vars, kind, call, rows, ret, hist,
                   codec_vars>>

\* fetch() under the mutexes that ends, as the loop body of scan() does, with
\* prepare_next_scan().
FetchTrx_prepare_next_scan(i) ==
    /\ pc[i] = "fetch_trx"
    /\ LET trx_id == call[i].fr.trx_id
           in_rw == fetch_trx_in_trx_list(trx_id, TRUE, rw_trx_list)
           in_mysql == fetch_trx_in_trx_list(trx_id, FALSE, mysql_trx_list)
           trx == IF in_rw # 0 THEN rw_trx_list[in_rw]
                  ELSE mysql_trx_list[in_mysql]
           calls ==
               IF (in_rw = 0 /\ in_mysql = 0) \/ kind[i] = "wait" THEN <<>>
               ELSE lock_scan_trx_calls(call[i].container,
                                        call[i].with_lock_data, trx, TRUE,
                                        call[i].fr)
           found_rows ==
               IF in_rw = 0 /\ in_mysql = 0 THEN <<>>
               ELSE IF kind[i] = "wait"
               THEN wait_scan_trx(call[i].container, trx, TRUE,
                                  call[i].fr, call[i].fb, lock_sys)
               ELSE add_lock_rows(calls)
       IN  /\ rows' = [rows EXCEPT ![i] = found_rows]
           /\ call' = [call EXCEPT
                  ![i].trx =
                      IF in_rw # 0 THEN [read_write |-> TRUE, pos |-> in_rw]
                      ELSE [read_write |-> FALSE, pos |-> in_mysql],
                  ![i].sink_calls = calls]
    /\ m_scan_state' = [m_scan_state EXCEPT ![i] = prepare_next_scan(@)]
    /\ pc' = [pc EXCEPT ![i] = "trx_sys_mutex_exit"]
    /\ UNCHANGED <<trx_sys_vars, mutex_vars, kind, ret, hist, codec_vars>>

\* fetch() under the mutexes: fetch_trx_in_trx_list on the RW list, then on
\* the MySQL list, and scan_trx with the filter on the transaction found.
FetchTrx(i) ==
    /\ pc[i] = "fetch_trx"
    /\ LET trx_id == call[i].fr.trx_id
           in_rw == fetch_trx_in_trx_list(trx_id, TRUE, rw_trx_list)
           in_mysql == fetch_trx_in_trx_list(trx_id, FALSE, mysql_trx_list)
           trx == IF in_rw # 0 THEN rw_trx_list[in_rw]
                  ELSE mysql_trx_list[in_mysql]
           calls ==
               IF (in_rw = 0 /\ in_mysql = 0) \/ kind[i] = "wait" THEN <<>>
               ELSE lock_scan_trx_calls(call[i].container,
                                        call[i].with_lock_data, trx, TRUE,
                                        call[i].fr)
           found_rows ==
               IF in_rw = 0 /\ in_mysql = 0 THEN <<>>
               ELSE IF kind[i] = "wait"
               THEN wait_scan_trx(call[i].container, trx, TRUE,
                                  call[i].fr, call[i].fb, lock_sys)
               ELSE add_lock_rows(calls)
       IN  /\ rows' = [rows EXCEPT ![i] = found_rows]
           /\ call' = [call EXCEPT
                  ![i].trx =
                      IF in_rw # 0 THEN [read_write |-> TRUE, pos |-> in_rw]
                      ELSE [read_write |-> FALSE, pos |-> in_mysql],
                  ![i].sink_calls = calls]
    /\ pc' = [pc EXCEPT ![i] = "trx_sys_mutex_exit"]
    /\ UNCHANGED <<trx_sys_vars, mutex_vars, kind, m_scan_state, ret,
                   hist, codec_vars>>

TrxSysMutexExit(i) ==
    /\ pc[i] = "trx_sys_mutex_exit"
    /\ trx_sys_mutex' = 0
    /\ pc' = [pc EXCEPT ![i] = "lock_mutex_exit"]
    /\ UNCHANGED <<trx_sys_vars, lock_mutex, kind, m_scan_state, call, rows,
                   ret, hist, codec_vars>>

\* lock_mutex_exit() and the return that follows it.
LockMutexExit(i) ==
    /\ pc[i] = "lock_mutex_exit"
    /\ lock_mutex' = 0
    /\ pc' = [pc EXCEPT ![i] = "returned"]
    /\ ret' = [ret EXCEPT ![i] =
           IF call[i].op = "scan" THEN scan_return(m_scan_state[i])
           ELSE TRUE]
    /\ UNCHANGED <<trx_sys_vars, trx_sys_mutex, kind, m_scan_state, call,
                   rows, hist, codec_vars>>

\* The caller has the returned value and the rows; the container is emptied
\* before the next call.
Returned(i) ==
    /\ pc[i] = "returned"
    /\ pc' = [pc EXCEPT ![i] = "idle"]
    /\ call' = [call EXCEPT ![i] = NoCall]
    /\ rows' = [rows EXCEPT ![i] = <<>>]
    /\ ret' = [ret EXCEPT ![i] = FALSE]
    /\ hist' = [hist EXCEPT ![i].returned_done =
           IF call[i].op # "scan" \/ ~ret[i] THEN @
           ELSE IF get_pass(m_scan_state[i]) = DONE_SCANNING THEN "finished"
           ELSE IF @ = "no" THEN "rejected" ELSE @]
    /\ UNCHANGED <<trx_sys_vars, mutex_vars, kind, m_scan_state, codec_vars>>

CodecIdle ==
    /\ codec_pc = "start"
    /\ id_buf = <<>>
    /\ id_src = [type |-> 0]
    /\ id_out = ScanFailed

InitIters(I) ==
    /\ kind \in [I -> {"lock", "wait"}]
    /\ m_scan_state = [i \in I |-> Innodb_trx_scan_state]
    /\ pc = [i \in I |-> "idle"]
    /\ call = [i \in I |-> NoCall]
    /\ rows = [i \in I |-> <<>>]
    /\ ret = [i \in I |-> FALSE]
    /\ hist = [i \in I |-> NoHist]
    /\ lock_mutex = 0
    /\ trx_sys_mutex = 0

\* One iterator, of either class, on any population.
Init ==
    /\ rw_trx_list \in RwLists
    /\ mysql_trx_list \in MysqlLists
    /\ InitIters({1})
    /\ CodecIdle

Next ==
    \/ \E i \in Iters : ScanBegin(i)
    \/ \E i \in Iters : LockFetchBegin(i)
    \/ \E i \in Iters : WaitFetchBegin(i)
    \/ \E i \in Iters : LockMutexEnter(i)
    \/ \E i \in Iters : TrxSysMutexEnter(i)
    \/ \E i \in Iters : ScanTrxList(i)
    \/ \E i \in Iters : PrepareNextScan(i)
    \/ \E i \in Iters : FetchTrx(i)
    \/ \E i \in Iters : TrxSysMutexExit(i)
    \/ \E i \in Iters : LockMutexExit(i)
    \/ \E i \in Iters : Returned(i)

Spec == Init /\ [][Next]_vars


(***************************************************************************)
(* Two iterators used concurrently: an Innodb_data_lock_iterator and an    *)
(* Innodb_data_lock_wait_iterator, each with its own m_scan_state, on the  *)
(* same lists and the same two mutexes.                                    *)
(***************************************************************************)
InitTwo ==
    /\ rw_trx_list = <<Trx255>>
    /\ mysql_trx_list = <<Mysql0>>
    /\ InitIters({1, 2})
    /\ kind = <<"lock", "wait">>
    /\ CodecIdle

SpecTwo == InitTwo /\ [][Next]_vars

(***************************************************************************)
(* One iterator on lists that other threads change: transactions begin,    *)
(* end and are moved in the lists whenever the iterator does not hold the  *)
(* mutexes.                                                                *)
(***************************************************************************)
\* The RW list is one of these: with a change of it a transaction begins
\* (Trx256, at the head of the list), ends, or both.
ChangingRwLists == {<<Trx255>>, <<Trx256>>, <<Trx256, Trx255>>}

ChangeLists ==
    /\ lock_mutex = 0
    /\ trx_sys_mutex = 0
    /\ rw_trx_list' \in ChangingRwLists
    /\ rw_trx_list' # rw_trx_list
    /\ UNCHANGED <<mysql_trx_list, mutex_vars, iter_vars, codec_vars>>

InitChanging ==
    /\ rw_trx_list \in ChangingRwLists
    /\ mysql_trx_list = <<Mysql0>>
    /\ InitIters({1})
    /\ CodecIdle

NextChanging == Next \/ ChangeLists

SpecChanging == InitChanging /\ [][NextChanging]_vars


\* The steps of a call that has begun: the thread of the consumer runs
\* scan() or fetch() to its return.
CallStep(i) ==
    \/ LockMutexEnter(i) \/ TrxSysMutexEnter(i) \/ ScanTrxList(i)
    \/ PrepareNextScan(i) \/ FetchTrx(i) \/ TrxSysMutexExit(i)
    \/ LockMutexExit(i) \/ Returned(i)

\* The consumer of iterator 1 calls scan() again and again, whatever else
\* happens between its calls, and every call runs to its return.
SpecChangingFair ==
    /\ SpecChanging
    /\ WF_vars(CallStep(1))
    /\ SF_vars(ScanBegin(1))

(***************************************************************************)
(* The example population: SCAN_RANGE + 44 started transactions with the   *)
(* ids 0, 1, ... in the RW list, in ascending or in descending order, each *)
(* with one table lock, and an empty MySQL list.                           *)
(***************************************************************************)
ExampleSize == SCAN_RANGE + 44
ExampleTrx(id) == Trx(id, TRUE, FALSE, <<TableLock(1000 + id, id, 7, "S")>>, 0)
ExampleAscending == [k \in 1..ExampleSize |-> ExampleTrx(k - 1)]
ExampleDescending == [k \in 1..ExampleSize |-> ExampleTrx(ExampleSize - k)]

InitExample ==
    /\ rw_trx_list \in {ExampleAscending, ExampleDescending}
    /\ mysql_trx_list = <<>>
    /\ InitIters({1})
    /\ CodecIdle

SpecExample == InitExample /\ [][Next]_vars

(***************************************************************************)
(* Properties of the scan state machine and of scan().                     *)
(***************************************************************************)
PassOrd(p) ==
    CASE p = INIT_SCANNING -> 0
      [] p = SCANNING_RW_TRX_LIST -> 1
      [] p = SCANNING_MYSQL_TRX_LIST -> 2
      [] p = DONE_SCANNING -> 3
      [] OTHER -> 9

\* The number of entries of the sequence s equal to e.
Count(s, e) == Cardinality({k \in 1..Len(s) : s[k] = e})

\* C1: over any sequence of calls on an iterator the pass of its scan state
\* either stays or moves to the next pass in the order not-started, RW list,
\* MySQL list, done: no pass is skipped and none is entered again.
C1_PassOrder ==
    [][\A i \in Iters :
          PassOrd(get_pass(m_scan_state'[i])) \in
              {PassOrd(get_pass(m_scan_state[i])),
               PassOrd(get_pass(m_scan_state[i])) + 1}]_vars

\* A scan that ran on transactions of the RW list and of the MySQL list has
\* reached the last pass.
C1_Witness ==
    \E i \in Iters :
        /\ get_pass(m_scan_state[i]) = DONE_SCANNING
        /\ \E a, b \in 1..Len(hist[i].scanned) :
               /\ hist[i].scanned[a][1] = SCANNING_RW_TRX_LIST
               /\ hist[i].scanned[b][1] = SCANNING_MYSQL_TRX_LIST

\* The positions of trx_list scan_trx has to be run on in its pass.
ToScan(pass, trx_list, read_write) ==
    {<<pass, k>> : k \in {j \in 1..Len(trx_list) :
                              ~discard_trx(trx_list[j], read_write)}}

\* C2: the lists do not change.  Whatever their order, scan_trx is never
\* run twice on a transaction in the pass of its list, never on a discarded
\* one, and when the scan is done it has been run once on every started
\* transaction of each list that discard_trx keeps.
C2_FullScan ==
    \A i \in Iters :
        LET todo == ToScan(SCANNING_RW_TRX_LIST, rw_trx_list, TRUE)
                      \cup ToScan(SCANNING_MYSQL_TRX_LIST, mysql_trx_list, FALSE)
        IN  /\ \A k \in 1..Len(hist[i].scanned) :
                   /\ hist[i].scanned[k] \in todo
                   /\ Count(hist[i].scanned, hist[i].scanned[k]) = 1
            /\ get_pass(m_scan_state[i]) = DONE_SCANNING =>
                   \A e \in todo : Count(hist[i].scanned, e) = 1

\* A finished scan, with an accept-all container, of an RW list whose first
\* transaction has an id at least one range above the second one's.
C2_Witness ==
    \E i \in Iters :
        /\ get_pass(m_scan_state[i]) = DONE_SCANNING
        /\ hist[i].all_accepted
        /\ Len(rw_trx_list) >= 2
        /\ rw_trx_list[1].id >= rw_trx_list[2].id + SCAN_RANGE
        /\ Len(hist[i].scanned) >= 2

\* C3: a prepare_next_scan() of the loop of scan() that keeps the pass moves
\* the range upward: the new start is at or above the old end, and the new
\* range is again SCAN_RANGE wide.
C3_RangesIncrease ==
    [][\A i \in Iters :
          (/\ pc[i] = "prepare_next_scan"
           /\ pc'[i] # "prepare_next_scan"
           /\ get_pass(m_scan_state'[i]) = get_pass(m_scan_state[i]))
          => /\ m_scan_state'[i].m_start_trx_id_range
                    >= m_scan_state[i].m_end_trx_id_range
             /\ m_scan_state'[i].m_end_trx_id_range
                    = m_scan_state'[i].m_start_trx_id_range + SCAN_RANGE]_vars

\* A pass has moved to a range two ranges above its first one.
C3_Witness ==
    \E i \in Iters :
        /\ get_pass(m_scan_state[i]) = SCANNING_RW_TRX_LIST
        /\ m_scan_state[i].m_start_trx_id_range = 2 * SCAN_RANGE

ScanReturned(i) == pc[i] = "returned" /\ call[i].op = "scan"

RowTrxIds(rs) == {rs[k].trx_id : k \in 1..Len(rs)}

\* The first two scan() calls of the example.
ExampleFirstCalls(i) ==
    /\ hist[i].ncalls = 1 =>
           /\ ~ret[i]
           /\ Len(rows[i]) = SCAN_RANGE
           /\ RowTrxIds(rows[i]) = 0..(SCAN_RANGE - 1)
    /\ hist[i].ncalls = 2 =>
           /\ ~ret[i]
           /\ Len(rows[i]) = ExampleSize - SCAN_RANGE
           /\ RowTrxIds(rows[i]) = SCAN_RANGE..(ExampleSize - 1)

ExampleCall(i) ==
    ScanReturned(i) /\ kind[i] = "lock" /\ hist[i].all_accepted

ScanBegins(i) == pc[i] = "idle" /\ call'[i].op = "scan"

\* The call that begins returns done at once: no mutex, no row, the scan
\* state as it was.
DoneAtOnce(i) ==
    /\ pc'[i] = "returned"
    /\ ret'[i]
    /\ rows'[i] = <<>>
    /\ ~call'[i].took_mutex
    /\ lock_mutex' = lock_mutex
    /\ trx_sys_mutex' = trx_sys_mutex
    /\ m_scan_state'[i] = m_scan_state[i]

\* C6 as claimed: once a scan() on the iterator has returned done, whatever
\* the reason, every later scan() returns done at once.
C6_Original ==
    [][\A i \in Iters :
          (ScanBegins(i) /\ hist[i].returned_done # "no") => DoneAtOnce(i)]_vars

\* C6, amended: a scan() that returned done without the engine name being
\* rejected left the pass at DONE_SCANNING, and every scan() that begins
\* with the pass at DONE_SCANNING returns done at once, with no row, no
\* mutex and the scan state unchanged.  After a done that came from the
\* container rejecting the engine name the pass is still INIT_SCANNING: the
\* next scan() asks the container again, returns done at once if it rejects
\* again, and goes on to the mutexes if it accepts.
C6_Amended ==
    [][\A i \in Iters :
          ScanBegins(i) =>
            /\ hist[i].returned_done = "finished"
                  => get_pass(m_scan_state[i]) = DONE_SCANNING
            /\ get_pass(m_scan_state[i]) = DONE_SCANNING => DoneAtOnce(i)
            /\ (/\ hist[i].returned_done = "rejected"
                /\ get_pass(m_scan_state[i]) = INIT_SCANNING)
               => IF accept_engine(call'[i].container)
                  THEN pc'[i] = "lock_mutex_enter"
                  ELSE DoneAtOnce(i)]_vars

\* A scan() has returned done after an earlier one had, with the scan
\* finished.
C6_Witness ==
    \E i \in Iters :
        /\ ScanReturned(i)
        /\ ret[i]
        /\ hist[i].returned_done = "finished"
        /\ hist[i].scanned # <<>>

\* C7: in scan() and fetch() of both iterators the lock_sys mutex is taken
\* before the trx_sys mutex and released after it (who owns the trx_sys
\* mutex owns the lock_sys mutex), both are owned during every traversal
\* of a list and every scan_trx, and none is owned outside a call or when
\* the call returns.
C7_Mutexes ==
    \A i \in Iters :
        /\ trx_sys_mutex = i => lock_mutex = i
        /\ pc[i] \in {"scan_trx_list", "prepare_next_scan", "fetch_trx"}
              => (lock_mutex = i /\ trx_sys_mutex = i)
        /\ pc[i] = "trx_sys_mutex_enter" => lock_mutex = i
        /\ pc[i] \in {"idle", "returned", "lock_mutex_enter"}
              => (lock_mutex # i /\ trx_sys_mutex # i)

\* A fetch() of the wait iterator that took both mutexes has returned with
\* a row.
C7_Witness ==
    \E i \in Iters :
        /\ pc[i] = "returned"
        /\ call[i].op = "fetch"
        /\ kind[i] = "wait"
        /\ call[i].took_mutex
        /\ rows[i] # <<>>
        /\ lock_mutex = 0
        /\ trx_sys_mutex = 0

\* The transactions of both lists.
AllTrx == SeqRange(rw_trx_list) \cup SeqRange(mysql_trx_list)

\* C8 as claimed: a row of the lock iterator has the status "WAITING" if
\* and only if its lock is the lock its transaction waits for; every other
\* lock of the transaction is reported "GRANTED".
C8_Claim ==
    \A i \in Iters :
        kind[i] = "lock" =>
            \A k \in 1..Len(rows[i]) :
                /\ rows[i][k].lock_status \in {"WAITING", "GRANTED"}
                /\ rows[i][k].lock_status = "WAITING" <=>
                       \E trx \in AllTrx :
                           /\ trx.id = rows[i][k].trx_id
                           /\ trx.wait_lock = rows[i][k].identity

NoLock == [type |-> 0]

(***************************************************************************)
(* The codec on its own: a string, or a printed lock, then scan_lock_id.   *)
(***************************************************************************)
Alphabet == {"1", ":", "x", "-"}
RawIds == UNION {[1..n -> Alphabet] : n \in 0..MaxLen}
CodecVals == 0..MaxCodecVal
CodecTableLocks ==
    [type : {LOCK_TABLE}, trx_id : CodecVals, table_id : CodecVals]
CodecRecLocks ==
    [type : {LOCK_REC}, trx_id : CodecVals, space_id : CodecVals,
     page_no : CodecVals, heap_no : CodecVals]

InitCodec ==
    /\ codec_pc = "start"
    /\ id_buf = <<>>
    /\ id_src = NoLock
    /\ id_out = ScanFailed
    /\ rw_trx_list = <<>>
    /\ mysql_trx_list = <<>>
    /\ InitIters({})

\* A consumer hands in an arbitrary string.
RawLockId ==
    /\ codec_pc = "start"
    /\ \E s \in RawIds : id_buf' = s
    /\ codec_pc' = "have_id"
    /\ UNCHANGED <<id_src, id_out, trx_sys_vars, mutex_vars, iter_vars>>

PrintTableLockId ==
    /\ codec_pc = "start"
    /\ \E lock \in CodecTableLocks :
          /\ id_buf' = print_lock_id(lock, 0)
          /\ id_src' = lock
    /\ codec_pc' = "have_id"
    /\ UNCHANGED <<id_out, trx_sys_vars, mutex_vars, iter_vars>>

PrintRecordLockId ==
    /\ codec_pc = "start"
    /\ \E lock \in CodecRecLocks :
          /\ id_buf' = print_lock_id(lock, lock.heap_no)
          /\ id_src' = lock
    /\ codec_pc' = "have_id"
    /\ UNCHANGED <<id_out, trx_sys_vars, mutex_vars, iter_vars>>

ScanLockId ==
    /\ codec_pc = "have_id"
    /\ codec_pc' = "decoded"
    /\ id_out' = scan_lock_id(id_buf)
    /\ UNCHANGED <<id_buf, id_src, trx_sys_vars, mutex_vars, iter_vars>>

NextCodec ==
    \/ RawLockId
    \/ PrintTableLockId
    \/ PrintRecordLockId
    \/ ScanLockId

SpecCodec == InitCodec /\ [][NextCodec]_vars

\* The fields of s between the ':' characters, from position p on.
RECURSIVE Fields(_, _, _)
Fields(s, p, cur) ==
    IF p > Len(s) THEN <<cur>>
    ELSE IF s[p] = ":" THEN <<cur>> \o Fields(s, p + 1, <<>>)
    ELSE Fields(s, p + 1, cur \o <<s[p]>>)

\* A signed integer: an optional sign and at least one digit.
IsInteger(fld) ==
    LET ds == IF fld # <<>> /\ fld[1] = "-" THEN Tail(fld) ELSE fld
    IN  ds # <<>> /\ \A k \in 1..Len(ds) : IsDigit(ds[k])

\* Exactly two or exactly four integers separated by single ':'.
WellFormedId(s) ==
    LET fs == Fields(s, 1, <<>>)
    IN  Len(fs) \in {2, 4} /\ \A k \in 1..Len(fs) : IsInteger(fs[k])

\* C9 as claimed: scan_lock_id fails (returns 0) for every string that is
\* not exactly two or exactly four integers separated by single ':'.
C9_Claim ==
    (codec_pc = "decoded" /\ ~WellFormedId(id_buf)) => id_out.type = 0

\* C10: scan_lock_id of the id printed for a table lock or for a heap
\* number of a record lock returns the lock's type and its identity fields.
C10_RoundTrip ==
    (codec_pc = "decoded" /\ id_src.type # 0) =>
        /\ id_out.type = id_src.type
        /\ id_out.trx_id = id_src.trx_id
        /\ id_src.type = LOCK_TABLE => id_out.table_id = id_src.table_id
        /\ id_src.type = LOCK_REC =>
               /\ id_out.space_id = id_src.space_id
               /\ id_out.page_id = id_src.page_no
               /\ id_out.heap_id = id_src.heap_no

\* The id of a record lock with fields of one and of two digits, all
\* different, has been decoded.
C10_Witness ==
    /\ codec_pc = "decoded"
    /\ id_src.type = LOCK_REC
    /\ id_src.trx_id = MaxCodecVal
    /\ id_src.space_id = 1
    /\ id_src.page_no = 2
    /\ id_src.heap_no = 3
    /\ id_out.type = LOCK_REC

(***************************************************************************)
(* Properties of fetch(), of the two scan_trx and of concurrent iterators. *)
(***************************************************************************)
\* A fetch() begins on iterator i.
FetchBegins(i) == pc[i] = "idle" /\ call'[i].op = "fetch"

\* C11: a fetch() whose identifier scan_lock_id does not decode (for the
\* wait iterator the requesting or the blocking one) returns at once, as an
\* ordinary return, with no row, no mutex taken and nothing changed.
C11_FetchMalformed ==
    [][\A i \in Iters :
          (/\ FetchBegins(i)
           /\ accept_engine(call'[i].container)
           /\ \/ call'[i].fr.type = 0
              \/ kind[i] = "wait" /\ call'[i].fb.type = 0)
          => /\ DoneAtOnce(i)
             /\ UNCHANGED <<trx_sys_vars, hist>>]_vars

\* A fetch() of the wait iterator whose requesting identifier decodes and
\* whose blocking identifier does not has returned.
C11_Witness ==
    \E i \in Iters :
        /\ pc[i] = "returned"
        /\ call[i].op = "fetch"
        /\ kind[i] = "wait"
        /\ accept_engine(call[i].container)
        /\ call[i].fr.type # 0
        /\ call[i].fb.type = 0
        /\ ~call[i].took_mutex
        /\ rows[i] = <<>>

\* A fetch() of the wait iterator that ran under the mutexes has returned.
WaitFetched(i) ==
    /\ kind[i] = "wait"
    /\ pc[i] = "returned"
    /\ call[i].op = "fetch"
    /\ call[i].took_mutex

\* C12 as claimed: every row of fetch(requesting id, blocking id) of the
\* wait iterator has a requesting lock with the decoded requesting
\* identifier and a blocking lock with the decoded blocking identifier,
\* transaction ids included; and when a transaction waits for a record lock
\* on a heap number on which a lock queued before it makes it wait, the
\* fetch for the ids of the two locks on that heap number, with a container
\* that accepts everything, emits exactly one row.
C12_Claim ==
    \A i \in Iters :
        WaitFetched(i) =>
            /\ \A k \in 1..Len(rows[i]) :
                   /\ scan_lock_id(rows[i][k].requesting_engine_lock_id)
                          = call[i].fr
                   /\ scan_lock_id(rows[i][k].blocking_engine_lock_id)
                          = call[i].fb
                   /\ rows[i][k].requesting_trx_id = call[i].fr.trx_id
                   /\ rows[i][k].blocking_trx_id = call[i].fb.trx_id
            /\ call[i].container = AcceptAll =>
                   \A trx \in SeqRange(rw_trx_list) :
                       (trx_que_lock_wait(trx)
                        /\ lock_get_type(wait_lock_of(trx)) = LOCK_REC) =>
                       LET w == wait_lock_of(trx)
                           h == lock_rec_find_set_bit(w)
                       IN  \A l \in lock_queue_prev(w, lock_sys) :
                               (/\ lock_has_to_wait(w, l)
                                /\ call[i].fr
                                     = scan_lock_id(print_lock_id(w, h))
                                /\ call[i].fb
                                     = scan_lock_id(print_lock_id(l, h)))
                               => Len(rows[i]) = 1


\* The wait iterator's scan() has just traversed a list.
WaitTraversed(i) == kind[i] = "wait" /\ pc[i] = "prepare_next_scan"

\* The transactions scan_trx was run on in the traversal just done: those of
\* the list of the current pass, in the current range.
EnumeratedTrx(i) ==
    LET s == m_scan_state[i]
        trx_list == IF get_pass(s) = SCANNING_RW_TRX_LIST
                    THEN rw_trx_list ELSE mysql_trx_list
    IN  {trx_list[e[2]] :
            e \in {x \in SeqRange(hist[i].scanned) :
                     /\ x[1] = get_pass(s)
                     /\ x[2] <= Len(trx_list)
                     /\ trx_list[x[2]].id >= s.m_start_trx_id_range
                     /\ trx_list[x[2]].id < s.m_end_trx_id_range}}

\* The pairs (W, L) of the claim: W the lock an enumerated transaction waits
\* for, L a lock queued before W on W's resource that makes W wait, the six
\* accept_ calls of the sink all true.
WaitEdges(i) ==
    LET c == call[i].container
        HeapNo(w) == IF w.type = LOCK_REC THEN lock_rec_find_set_bit(w) ELSE 0
        Accepted(w, l) ==
            /\ accept_requesting_transaction_id(c, w.trx_id)
            /\ accept_requesting_thread_id_event_id(
                   c, lock_get_psi_event(w).thread_id,
                   lock_get_psi_event(w).event_id)
            /\ accept_requesting_lock_id(c, print_lock_id(w, HeapNo(w)))
            /\ accept_blocking_transaction_id(c, l.trx_id)
            /\ accept_blocking_thread_id_event_id(
                   c, lock_get_psi_event(l).thread_id,
                   lock_get_psi_event(l).event_id)
            /\ accept_blocking_lock_id(c, print_lock_id(l, HeapNo(w)))
    IN  UNION {LET w == wait_lock_of(t)
               IN  {<<w.addr, l.addr>> :
                      l \in {m \in lock_queue_prev(w, lock_sys) :
                               /\ lock_has_to_wait(w, m)
                               /\ Accepted(w, m)}} :
               t \in {u \in EnumeratedTrx(i) : trx_que_lock_wait(u)}}

\* C13: in a scan without filter a transaction that is not waiting for a
\* lock contributes no row, and the rows of a waiting transaction are, once
\* each, the pairs (W, L) with L queued before W on W's resource, L making W
\* wait by the conflict predicate, and the sink accepting the requesting and
\* the blocking transaction id, thread/event and lock id.
C13_WaitRows ==
    \A i \in Iters :
        WaitTraversed(i) =>
            /\ {<<rows[i][k].requesting_identity,
                  rows[i][k].blocking_identity>> : k \in 1..Len(rows[i])}
                 = WaitEdges(i)
            /\ Len(rows[i]) = Cardinality(WaitEdges(i))

\* A traversal that met a waiting transaction with a lock of its own queued
\* before the awaited one, and gave the row of the lock that blocks it,
\* after a traversal that met a transaction that does not wait.
C13_Witness ==
    \E i \in Iters :
        /\ WaitTraversed(i)
        /\ Len(rows[i]) = 1
        /\ \E t \in EnumeratedTrx(i) :
              /\ trx_que_lock_wait(t)
              /\ \E l \in lock_queue_prev(wait_lock_of(t), lock_sys) :
                    ~lock_has_to_wait(wait_lock_of(t), l)
        /\ \E e \in SeqRange(hist[i].scanned) :
              /\ e[1] = SCANNING_RW_TRX_LIST
              /\ e[2] <= Len(rw_trx_list)
              /\ ~trx_que_lock_wait(rw_trx_list[e[2]])


\* fetch() of the lock iterator has run fetch_trx and scan_trx.
LockFetched(i) == kind[i] = "lock" /\ pc[i] = "returned" /\ call[i].op = "fetch" /\ call[i].took_mutex

\* The transactions of the two lists that are not discarded.
NotDiscarded ==
    {t \in SeqRange(rw_trx_list) : ~discard_trx(t, TRUE)}
    \cup {t \in SeqRange(mysql_trx_list) : ~discard_trx(t, FALSE)}

\* C14: every row of the lock iterator's fetch(id) is a row of a lock of the
\* transaction with the decoded id, of the decoded kind and with the decoded
\* table id, or space id, page number and heap number; with no transaction
\* of that id that is not discarded, in either list, fetch adds no row.
C14_LockFetchRows ==
    \A i \in Iters :
        LockFetched(i) =>
            LET f == call[i].fr
            IN  /\ \A k \in 1..Len(rows[i]) :
                      /\ rows[i][k].trx_id = f.trx_id
                      /\ scan_lock_id(rows[i][k].engine_lock_id) = f
                      /\ \E t \in NotDiscarded :
                            /\ trx_get_id_for_print(t) = f.trx_id
                            /\ \E l \in SeqRange(t.locks) :
                                  /\ l.addr = rows[i][k].identity
                                  /\ l.type = f.type
                                  /\ IF f.type = LOCK_TABLE
                                     THEN l.table_id = f.table_id
                                     ELSE /\ l.space_id = f.space_id
                                          /\ l.page_no = f.page_id
                                          /\ f.heap_id \in l.bits
                /\ (\A t \in NotDiscarded : trx_get_id_for_print(t) # f.trx_id)
                       => rows[i] = <<>>

\* A fetch of one heap number of a record lock with several bits set that
\* gave a row.
C14_Witness ==
    \E i \in Iters :
        /\ LockFetched(i)
        /\ call[i].fr.type = LOCK_REC
        /\ Len(rows[i]) >= 1
        /\ \E l \in lock_sys :
              l.addr = rows[i][1].identity /\ Cardinality(l.bits) >= 2


\* C15 as claimed: the rows one call of the lock iterator adds for distinct
\* locks have distinct engine lock ids, and fetch(id) adds at most one row.
C15_Claim ==
    \A i \in Iters :
        (kind[i] = "lock" /\ pc[i] = "returned") =>
            /\ \A j, k \in 1..Len(rows[i]) :
                  rows[i][j].identity # rows[i][k].identity
                      => rows[i][j].engine_lock_id # rows[i][k].engine_lock_id
            /\ call[i].op = "fetch" => Len(rows[i]) <= 1


\* The transactions scan_trx was run on by the scan() calls of iterator i,
\* each with the list it was met in (TRUE for trx_sys->rw_trx_list), and the
\* transaction its fetch() has found.
ScannedTrx(i) ==
    {<<e[1] = SCANNING_RW_TRX_LIST,
       IF e[1] = SCANNING_RW_TRX_LIST
       THEN rw_trx_list[e[2]] ELSE mysql_trx_list[e[2]]>> :
       e \in SeqRange(hist[i].scanned)}
FetchedTrx(i) ==
    IF call[i].trx.pos = 0 THEN {}
    ELSE {<<call[i].trx.read_write,
            IF call[i].trx.read_write
            THEN rw_trx_list[call[i].trx.pos]
            ELSE mysql_trx_list[call[i].trx.pos]>>}

\* C16: scan_trx is run, by scan() and by fetch(), on started transactions
\* only, and in the MySQL list only on those with id zero or read-only; a
\* started transaction of the read-write list is not discarded, nor is a
\* started transaction of the MySQL list that is read-only or has id zero:
\* fetch() of its id finds it.
C16_DiscardRule ==
    /\ \A i \in Iters :
          \A e \in ScannedTrx(i) \cup FetchedTrx(i) :
              /\ e[2].started
              /\ ~e[1] => (e[2].id = 0 \/ e[2].read_only)
    /\ \A t \in SeqRange(rw_trx_list) : t.started => ~discard_trx(t, TRUE)
    /\ \A t \in SeqRange(mysql_trx_list) :
          (t.started /\ (t.read_only \/ t.id = 0)) => ~discard_trx(t, FALSE)
    /\ \A i \in Iters :
          (pc[i] = "trx_sys_mutex_exit" /\ call[i].op = "fetch") =>
              \A t \in SeqRange(rw_trx_list) \cup
                         {u \in SeqRange(mysql_trx_list) :
                            u.read_only \/ u.id = 0} :
                  (t.started /\ trx_get_id_for_print(t) = call[i].fr.trx_id)
                      => call[i].trx.pos # 0

\* A fetch() that met a MySQL list transaction which is discarded, after
\* scan() calls that went through the MySQL list.
C16_Witness ==
    \E i \in Iters :
        /\ pc[i] = "trx_sys_mutex_exit"
        /\ call[i].op = "fetch"
        /\ call[i].trx.pos = 0
        /\ \E t \in SeqRange(mysql_trx_list) :
              /\ discard_trx(t, FALSE)
              /\ t.started
              /\ trx_get_id_for_print(t) = call[i].fr.trx_id
        /\ hist[i].returned_done = "finished"


\* C17 as claimed: a scan() call traverses one range of one list under the
\* mutexes: after prepare_next_scan it starts no other traversal.
C17_Claim ==
    [][\A i \in Iters :
          pc[i] = "prepare_next_scan" => pc'[i] # "scan_trx_list"]_vars


\* C18: a scan() that begins with the pass at INIT_SCANNING and a container
\* that rejects the engine name returns true at once, with no mutex taken,
\* no row added and the scan state as it was; a fetch() whose container
\* rejects the engine name takes no mutex and adds no row.
C18_EngineRejected ==
    [][\A i \in Iters :
          ~accept_engine(call'[i].container) =>
            /\ (ScanBegins(i) /\ get_pass(m_scan_state[i]) = INIT_SCANNING)
                  => /\ DoneAtOnce(i)
                     /\ get_pass(m_scan_state'[i]) = INIT_SCANNING
            /\ FetchBegins(i)
                  => /\ pc'[i] = "returned"
                     /\ rows'[i] = <<>>
                     /\ ~call'[i].took_mutex
                     /\ UNCHANGED mutex_vars]_vars

\* The first scan() of a wait iterator has returned done at once because
\* the container rejected the engine name.
C18_Witness ==
    \E i \in Iters :
        /\ kind[i] = "wait"
        /\ pc[i] = "returned"
        /\ call[i].op = "scan"
        /\ ~accept_engine(call[i].container)
        /\ hist[i].ncalls = 1
        /\ get_pass(m_scan_state[i]) = INIT_SCANNING
        /\ ret[i]
        /\ ~call[i].took_mutex


\* Iterator i is between lock_mutex_enter() and lock_mutex_exit().
InSection(i) ==
    pc[i] \in {"trx_sys_mutex_enter", "scan_trx_list", "prepare_next_scan",
               "fetch_trx", "trx_sys_mutex_exit", "lock_mutex_exit"}

\* No two iterators are in the section at once, and the owner of each mutex
\* is in it.
MutualExclusion ==
    /\ \A i, j \in Iters : (InSection(i) /\ InSection(j)) => i = j
    /\ \A i \in Iters : InSection(i) <=> lock_mutex = i
    /\ trx_sys_mutex # 0 => trx_sys_mutex = lock_mutex

\* Iterator i is at lock_mutex_enter() or trx_sys_mutex_enter() and cannot
\* take the mutex.
Waits(i) ==
    \/ pc[i] = "lock_mutex_enter" /\ ~ENABLED LockMutexEnter(i)
    \/ pc[i] = "trx_sys_mutex_enter" /\ ~ENABLED TrxSysMutexEnter(i)

\* An iterator that waits for a mutex waits for one whose owner does not
\* wait: the owner is on its way to trx_sys_mutex_exit() and
\* lock_mutex_exit().
NoDeadlock ==
    \A i \in Iters :
        Waits(i) =>
            \E j \in Iters \ {i} :
                /\ lock_mutex = j \/ trx_sys_mutex = j
                /\ InSection(j)
                /\ ~Waits(j)

\* A step that changes the scan state of iterator i is a step of a scan()
\* call on i, and changes nothing of the other iterators.
OwnScanState ==
    \A i \in Iters :
        m_scan_state'[i] # m_scan_state[i] =>
            /\ call'[i].op = "scan"
            /\ pc'[i] # pc[i]
            /\ \A j \in Iters \ {i} :
                  /\ pc'[j] = pc[j]
                  /\ call'[j] = call[j]
                  /\ m_scan_state'[j] = m_scan_state[j]

\* C19: with two iterators used concurrently at most one is between
\* lock_mutex_enter() and lock_mutex_exit(), no state is a deadlock, and the
\* scan state of an iterator is changed by its own scan() calls only.
C19_Concurrent ==
    /\ [](MutualExclusion /\ NoDeadlock)
    /\ [][OwnScanState]_vars

\* One iterator is in a traversal of its second scan() while the other, in
\* a fetch(), waits for the lock_sys mutex.
C19_Witness ==
    \E i, j \in Iters :
        /\ i # j
        /\ pc[i] = "scan_trx_list"
        /\ hist[i].ncalls = 2
        /\ pc[j] = "lock_mutex_enter"
        /\ call[j].op = "fetch"
        /\ get_pass(m_scan_state[j]) # INIT_SCANNING
        /\ Waits(j)


\* The position of the latest call op before position k of the calls L
\* that is about the same transaction (lock = 0) or the same lock, 0 if
\* there is none.
LatestBefore(L, k, op, lock) ==
    LET S == {j \in 1..(k - 1) : L[j].op = op /\ L[j].lock = lock}
    IN  IF S = {} THEN 0 ELSE CHOOSE j \in S : \A m \in S : m <= j

\* The calls L are made in the order of scan_trx, each one only after the
\* calls before it in that order returned true.
ShortCircuited(L, with_lock_data) ==
    \A k \in 1..Len(L) :
        LET c == L[k]
            t == LatestBefore(L, k, "accept_transaction_id", 0)
        IN  /\ k = 1 => c.op = "accept_transaction_id"
            /\ c.op # "accept_transaction_id" =>
                  /\ t # 0
                  /\ L[t].ret
                  /\ L[t].trx_id = c.trx_id
                  /\ \A j \in t..(k - 1) :
                        \/ L[j].ret
                        \/ L[j].lock # c.lock
                        \/ L[j].op = "accept_lock_id"
            /\ c.op = "accept_thread_id_event_id" =>
                  \A j \in (t + 1)..(k - 1) : L[j].lock # c.lock
            /\ c.op = "accept_object" =>
                  /\ L[k - 1].op = "accept_thread_id_event_id"
                  /\ L[k - 1].lock = c.lock
                  /\ L[k - 1].ret
            /\ c.op = "accept_lock_id" =>
                  LET o == LatestBefore(L, k, "accept_object", c.lock)
                  IN  /\ o > t
                      /\ L[o].ret
                      /\ \A j \in (o + 1)..(k - 1) :
                            /\ L[j].lock = c.lock
                            /\ L[j].heap_no < c.heap_no
            /\ c.op = "p_s_fill_lock_data" =>
                  /\ with_lock_data
                  /\ L[k - 1].op = "accept_lock_id"
                  /\ L[k - 1].lock = c.lock
                  /\ L[k - 1].heap_no = c.heap_no
                  /\ L[k - 1].ret
            /\ c.op = "add_lock_row" =>
                  LET a == LatestBefore(L, k, "accept_lock_id", c.lock)
                  IN  /\ a > t
                      /\ L[a].ret
                      /\ L[a].heap_no = c.heap_no
                      /\ a = k - 1
                         \/ (a = k - 2 /\ L[k - 1].op = "p_s_fill_lock_data")
            /\ (~c.ret /\ k < Len(L)) =>
                  IF c.op = "accept_transaction_id"
                  THEN L[k + 1].op = "accept_transaction_id"
                  ELSE IF c.op = "accept_lock_id"
                  THEN L[k + 1].op # "add_lock_row"
                       /\ L[k + 1].op # "p_s_fill_lock_data"
                       /\ (L[k + 1].lock = c.lock
                              => L[k + 1].heap_no > c.heap_no)
                  ELSE L[k + 1].lock # c.lock

\* C20: in the lock iterator, scan_trx asks accept_transaction_id first,
\* and after a false answer makes no other call for the transaction; for a
\* lock it asks accept_thread_id_event_id, accept_object and accept_lock_id
\* in that order, a false answer ends the calls for the lock (for the heap
\* number, for accept_lock_id); add_lock_row is called only after all of
\* them returned true, and the rows of the call are those passed to it.
C20_ShortCircuit ==
    \A i \in Iters :
        kind[i] = "lock" =>
            /\ ShortCircuited(call[i].sink_calls, call[i].with_lock_data)
            /\ pc[i] \in {"prepare_next_scan", "trx_sys_mutex_exit",
                          "lock_mutex_exit", "returned"}
                  => rows[i] = add_lock_rows(call[i].sink_calls)

\* A scan() in which accept_object returned false for one lock and
\* accept_lock_id for one heap number of a record lock, after a row was
\* added for another heap number, and accept_transaction_id returned false
\* for a transaction.
C20_Witness ==
    \E i \in Iters :
        LET L == call[i].sink_calls
        IN  /\ kind[i] = "lock"
            /\ pc[i] = "returned"
            /\ \E j, k \in 1..Len(L) :
                  /\ j < k
                  /\ L[j].op = "add_lock_row"
                  /\ L[k].op = "accept_lock_id"
                  /\ L[k].lock = L[j].lock
                  /\ ~L[k].ret
            /\ \E k \in 1..Len(L) :
                  L[k].op = "accept_transaction_id" /\ ~L[k].ret


(***************************************************************************)
(* Properties that relate scan() and fetch(), and of the ranges.           *)
(***************************************************************************)
\* The rows a scan() of the wait iterator with an accept-all container adds
\* for the transactions of the two lists as they are.
WaitScanRows ==
    UNION {SeqRange(wait_scan_trx(AcceptAll, t, FALSE, NoFilter, NoFilter,
                                  lock_sys)) : t \in NotDiscarded}

\* C21 as claimed: with an accept-all container, fetch() of the wait
\* iterator with the two ids of a row that scan() adds in the same state
\* adds the row of that edge.
C21_Claim ==
    \A i \in Iters :
        (WaitFetched(i) /\ call[i].container = AcceptAll) =>
            \A r \in WaitScanRows :
                (/\ scan_lock_id(r.requesting_engine_lock_id) = call[i].fr
                 /\ scan_lock_id(r.blocking_engine_lock_id) = call[i].fb)
                => \E k \in 1..Len(rows[i]) :
                      /\ rows[i][k].requesting_identity = r.requesting_identity
                      /\ rows[i][k].blocking_identity = r.blocking_identity


\* The rows a scan() of the lock iterator with an accept-all container adds
\* for the transactions of the two lists as they are.
LockScanRows(with_lock_data) ==
    UNION {SeqRange(lock_scan_trx(AcceptAll, with_lock_data, t, FALSE,
                                  NoFilter)) : t \in NotDiscarded}

\* C22: with an accept-all container, fetch() of the lock iterator with the
\* engine lock id of a row that scan() adds in the same state adds a row of
\* that lock with that id: for table locks, for each heap number of a
\* record lock, and for the transactions of either list.
C22_LockRoundTrip ==
    \A i \in Iters :
        (LockFetched(i) /\ call[i].container = AcceptAll) =>
            \A r \in LockScanRows(call[i].with_lock_data) :
                scan_lock_id(r.engine_lock_id) = call[i].fr
                => \E k \in 1..Len(rows[i]) :
                      /\ rows[i][k].identity = r.identity
                      /\ rows[i][k].engine_lock_id = r.engine_lock_id

\* A fetch() has found the table lock of a transaction of the MySQL list
\* that scan() gives a row for.
C22_Witness ==
    \E i \in Iters :
        /\ LockFetched(i)
        /\ call[i].container = AcceptAll
        /\ ~call[i].trx.read_write
        /\ Len(rows[i]) = 1
        /\ \E r \in LockScanRows(call[i].with_lock_data) :
              r.identity = rows[i][1].identity
        /\ rows[i][1].lock_type = "TABLE"


\* The lock a row is about (the requesting lock, for a lock wait row) and
\* the id of its transaction.
RowLock(i, k) ==
    IF kind[i] = "wait" THEN rows[i][k].requesting_identity
    ELSE rows[i][k].identity
RowTrxId(i, k) ==
    IF kind[i] = "wait" THEN rows[i][k].requesting_trx_id
    ELSE rows[i][k].trx_id

\* C23: the rows of one scan() call are of transactions of one list, with
\* ids in one range [start, start + SCAN_RANGE); once a traversal has added
\* a row the call makes no other traversal, of this list or of the next.
C23_OneRange ==
    \A i \in Iters :
        call[i].op = "scan" =>
            /\ pc[i] = "scan_trx_list" => rows[i] = <<>>
            /\ \E read_write \in BOOLEAN :
               \E start \in {n * SCAN_RANGE : n \in 0..(TRX_ID_MAX \div SCAN_RANGE)} :
                  \A k \in 1..Len(rows[i]) :
                      /\ start <= RowTrxId(i, k)
                      /\ RowTrxId(i, k) < start + SCAN_RANGE
                      /\ \E t \in SeqRange(IF read_write THEN rw_trx_list
                                           ELSE mysql_trx_list) :
                            /\ ~discard_trx(t, read_write)
                            /\ \E l \in SeqRange(t.locks) :
                                  l.addr = RowLock(i, k)

\* A scan() has returned rows of the read-write list while the MySQL list
\* has a transaction with locks that is not discarded, and which the pass
\* that follows is to scan.
C23_Witness ==
    \E i \in Iters :
        /\ pc[i] = "returned"
        /\ call[i].op = "scan"
        /\ Len(rows[i]) >= 2
        /\ get_pass(m_scan_state[i]) = SCANNING_MYSQL_TRX_LIST
        /\ \E t \in SeqRange(mysql_trx_list) :
              ~discard_trx(t, FALSE) /\ t.locks # <<>>


\* C24: on lists that change between the calls, the scan() calls of an
\* iterator never run scan_trx twice on the same transaction id in one
\* pass.
C24_NoRescan ==
    \A i \in Iters :
        \A a, b \in 1..Len(hist[i].scanned_ids) :
            hist[i].scanned_ids[a] = hist[i].scanned_ids[b] => a = b

\* A scan is done in which scan_trx was run on a transaction of the first
\* range, which has ended since, and in a later call on one of the second
\* range.
C24_Witness ==
    \E i \in Iters :
        /\ get_pass(m_scan_state[i]) = DONE_SCANNING
        /\ \E a, b \in 1..Len(hist[i].scanned_ids) :
              /\ a < b
              /\ hist[i].scanned_ids[a][1] = SCANNING_RW_TRX_LIST
              /\ hist[i].scanned_ids[b][1] = SCANNING_RW_TRX_LIST
              /\ hist[i].scanned_ids[a][2] < SCAN_RANGE
              /\ hist[i].scanned_ids[b][2] >= SCAN_RANGE
        /\ \A k \in 1..Len(rw_trx_list) : rw_trx_list[k].id >= SCAN_RANGE


\* C25: prepare_next_scan() is never called with the pass at DONE_SCANNING:
\* the calls of scan() are made with the pass at INIT_SCANNING (the first
\* lines) or at one of the two list passes (the loops), and the ut_error
\* branch is never taken.
C25_NoFatal ==
    /\ \A i \in Iters :
          /\ get_pass(m_scan_state[i]) # UT_ERROR
          /\ pc[i] \in {"scan_trx_list", "prepare_next_scan"}
                => get_pass(m_scan_state[i]) \in
                       {SCANNING_RW_TRX_LIST, SCANNING_MYSQL_TRX_LIST}
    /\ \A s \in {m_scan_state[i] : i \in Iters} :
          get_pass(prepare_next_scan(s)) = UT_ERROR
              <=> get_pass(s) = DONE_SCANNING

\* prepare_next_scan() is about to move the pass from the MySQL list to
\* DONE_SCANNING, in a scan() call that follows one that returned rows.
C25_Witness ==
    \E i \in Iters :
        /\ pc[i] = "prepare_next_scan"
        /\ get_pass(m_scan_state[i]) = SCANNING_MYSQL_TRX_LIST
        /\ m_scan_state[i].m_next_trx_id_range = TRX_ID_MAX
        /\ hist[i].ncalls >= 2
        /\ get_pass(prepare_next_scan(m_scan_state[i])) = DONE_SCANNING


\* The ids trx_id_in_range is called with in a traversal of the list of the
\* pass of s: those of the transactions that are not discarded.
ExaminedIds(s) ==
    LET read_write == get_pass(s) = SCANNING_RW_TRX_LIST
        trx_list == IF read_write THEN rw_trx_list ELSE mysql_trx_list
    IN  {trx_get_id_for_print(t) :
            t \in {u \in SeqRange(trx_list) : ~discard_trx(u, read_write)}}

\* Ids at and around the bounds of the range of s, and those of the lists.
ProbeIds(s) ==
    ({s.m_start_trx_id_range - 1, s.m_start_trx_id_range,
      s.m_end_trx_id_range - 1, s.m_end_trx_id_range,
      s.m_next_trx_id_range - 1, s.m_next_trx_id_range}
     \cup {t.id : t \in AllTrx}) \cap 0..MaxTrxId

\* C26: when a traversal has met an id at or above the end of the range,
\* prepare_next_scan() makes the range [m - m % SCAN_RANGE, that +
\* SCAN_RANGE) for the smallest such id m, leaves the pass and clears the
\* hint: m is in the new range and no id met lies between the old end and
\* the new start.  trx_id_in_range(id) is true exactly for start <= id <
\* end, and leaves the hint as it is for an id below the end.
C26_NoGaps ==
    [][\A i \in Iters :
          LET s == m_scan_state[i]
              t == m_scan_state'[i]
              above == {id \in ExaminedIds(s) : id >= s.m_end_trx_id_range}
          IN  /\ (pc[i] = "prepare_next_scan" /\ above # {}) =>
                    LET m == SetMin(above)
                    IN  /\ t.m_start_trx_id_range = m - (m % SCAN_RANGE)
                        /\ t.m_end_trx_id_range
                              = t.m_start_trx_id_range + SCAN_RANGE
                        /\ get_pass(t) = get_pass(s)
                        /\ t.m_next_trx_id_range = TRX_ID_MAX
                        /\ t.m_start_trx_id_range <= m
                        /\ m < t.m_end_trx_id_range
                        /\ \A id \in ExaminedIds(s) :
                              ~(/\ s.m_end_trx_id_range <= id
                                /\ id < t.m_start_trx_id_range)
              /\ pc[i] \in {"scan_trx_list", "prepare_next_scan"} =>
                    \A id \in ProbeIds(s) :
                        LET r == trx_id_in_range(s, id)
                        IN  /\ r.in_range <=>
                                  (/\ s.m_start_trx_id_range <= id
                                   /\ id < s.m_end_trx_id_range)
                            /\ id < s.m_end_trx_id_range => r.state = s]_vars

\* prepare_next_scan() is called after a traversal that met no id of the
\* range after the current one, but one of a later range.
C26_Witness ==
    \E i \in Iters :
        /\ pc[i] = "prepare_next_scan"
        /\ m_scan_state[i].m_next_trx_id_range # TRX_ID_MAX
        /\ m_scan_state[i].m_next_trx_id_range
              >= m_scan_state[i].m_end_trx_id_range + SCAN_RANGE


\* The place of a scan state in the order of the scan: the pass, then the
\* start of the range.
ScanRank(s) == PassOrd(get_pass(s)) * (TRX_ID_MAX + 1) + s.m_start_trx_id_range

\* C27: on lists that change between the calls, a scan() call that took the
\* mutexes returns with the pass, or in the same pass the start of the
\* range, above what it was when the call began; and with scan() called
\* again and again, a scan that has left INIT_SCANNING gets to the calls
\* that return done: no scan stays in the list passes for ever.
C27_Terminates ==
    /\ [](\A i \in Iters :
             (pc[i] = "returned" /\ call[i].op = "scan" /\ call[i].took_mutex)
                 => ScanRank(m_scan_state[i]) > ScanRank(call[i].entry_state))
    /\ []<>(\/ get_pass(m_scan_state[1]) = INIT_SCANNING
             \/ (pc[1] = "returned" /\ call[1].op = "scan" /\ ret[1]))

\* A scan() returns done after the RW list has changed between two scan()
\* calls that took the mutexes.
C27_Witness ==
    /\ pc[1] = "returned"
    /\ call[1].op = "scan"
    /\ ret[1]
    /\ get_pass(m_scan_state[1]) = DONE_SCANNING
    /\ hist[1].ncalls >= 3
    /\ <<SCANNING_RW_TRX_LIST, SCAN_RANGE>> \in SeqRange(hist[1].scanned_ids)
    /\ rw_trx_list = <<Trx255>>


\* The heap numbers scan_trx has to go through for a record lock: its set
\* bits, or with the filter of fetch() the heap number of the filter if it
\* is set.
HeapNos(i, lock) ==
    IF call[i].op = "fetch" THEN lock.bits \cap {call[i].fr.heap_id}
    ELSE lock.bits

\* C28: for a record lock that passed the filter, accept_thread_id_event_id
\* and accept_object, scan_trx goes through the set bits in increasing
\* order, once each (with a filter: the heap number of the filter only),
\* and adds for each one accept_lock_id accepts a row whose id is the id
\* of the lock with that heap number.  p_s_fill_lock_data is called only
\* with with_lock_data and after accept_lock_id returned true; lock_data is
\* NULL without with_lock_data and for every table lock.  found is the
\* number of rows added.
C28_RecordRows ==
    \A i \in Iters :
        (/\ kind[i] = "lock"
         /\ pc[i] \in {"prepare_next_scan", "trx_sys_mutex_exit"}) =>
            LET L == call[i].sink_calls
                Asked(lock) ==
                    {k \in 1..Len(L) : /\ L[k].op = "accept_lock_id"
                                       /\ L[k].lock = lock.addr}
                RowsOf(lock, heap_no) ==
                    {k \in 1..Len(rows[i]) :
                        /\ rows[i][k].identity = lock.addr
                        /\ rows[i][k].engine_lock_id
                              = print_record_lock_id(lock, heap_no)}
            IN  /\ \A lock \in {l \in lock_sys : l.type = LOCK_REC} :
                      (\E k \in 1..Len(L) : /\ L[k].op = "accept_object"
                                            /\ L[k].lock = lock.addr
                                            /\ L[k].ret) =>
                          /\ {L[k].heap_no : k \in Asked(lock)}
                                = HeapNos(i, lock)
                          /\ Cardinality(Asked(lock))
                                = Cardinality(HeapNos(i, lock))
                          /\ \A j, k \in Asked(lock) :
                                j < k => L[j].heap_no < L[k].heap_no
                          /\ \A k \in Asked(lock) :
                                /\ Cardinality(RowsOf(lock, L[k].heap_no))
                                      = IF L[k].ret THEN 1 ELSE 0
                                /\ scan_lock_id(print_record_lock_id(
                                       lock, L[k].heap_no)).heap_id
                                      = L[k].heap_no
                          /\ Cardinality({k \in 1..Len(rows[i]) :
                                            rows[i][k].identity = lock.addr})
                                = Cardinality({k \in Asked(lock) : L[k].ret})
                /\ \A k \in 1..Len(L) :
                      L[k].op = "p_s_fill_lock_data" =>
                          /\ call[i].with_lock_data
                          /\ L[k - 1].op = "accept_lock_id"
                          /\ L[k - 1].lock = L[k].lock
                          /\ L[k - 1].heap_no = L[k].heap_no
                          /\ L[k - 1].ret
                /\ \A k \in 1..Len(rows[i]) :
                      /\ rows[i][k].lock_data # "NULL" <=>
                            (/\ call[i].with_lock_data
                             /\ rows[i][k].lock_type = "RECORD")
                      /\ rows[i][k].lock_data # "NULL" =>
                            \E j \in 1..Len(L) :
                                /\ L[j].op = "p_s_fill_lock_data"
                                /\ L[j].lock = rows[i][k].identity
                                /\ print_record_lock_id(
                                       CHOOSE l \in lock_sys :
                                           l.addr = L[j].lock,
                                       L[j].heap_no)
                                      = rows[i][k].engine_lock_id
                /\ pc[i] = "prepare_next_scan"
                      => call[i].found = Len(rows[i])

\* A scan() with with_lock_data has added the rows of a record lock with
\* two bits set, and of a table lock.
C28_Witness ==
    \E i \in Iters :
        /\ kind[i] = "lock"
        /\ pc[i] = "prepare_next_scan"
        /\ call[i].with_lock_data
        /\ call[i].found >= 3
        /\ \E j, k \in 1..Len(rows[i]) :
              /\ j < k
              /\ rows[i][j].identity = rows[i][k].identity
              /\ rows[i][j].lock_data = "lock_data"
        /\ \E k \in 1..Len(rows[i]) : rows[i][k].lock_type = "TABLE"


\* Iterator i is in a call of fetch(), or between that call and the next.
InFetch(i) == call[i].op = "fetch"

\* C29: fetch() leaves the scan state alone.  No step of a fetch(), from
\* its first line to its return, whether it finds its row, finds none or
\* cannot decode its identifier, changes the pass, the range or the hint of
\* its iterator, or what the scans of the iterator have examined; so the
\* next scan() starts in the state the previous scan() left, with or
\* without the calls of fetch() between them.
C29_FetchKeepsScanState ==
    [][\A i \in Iters :
          (FetchBegins(i) \/ (InFetch(i) /\ call'[i].op = "fetch"))
          => /\ m_scan_state'[i] = m_scan_state[i]
             /\ hist'[i] = hist[i]
             /\ m_scan_state'[i] = call'[i].entry_state]_vars

\* A fetch() that found its row has returned between two calls of scan():
\* the scan before it had left a range that is not the first one.
C29_Witness ==
    \E i \in Iters :
        /\ pc[i] = "returned"
        /\ InFetch(i)
        /\ call[i].took_mutex
        /\ rows[i] # <<>>
        /\ hist[i].ncalls >= 1
        /\ hist[i].returned_done = "no"
        /\ get_pass(m_scan_state[i]) \in {SCANNING_RW_TRX_LIST,
                                          SCANNING_MYSQL_TRX_LIST}
        /\ m_scan_state[i].m_start_trx_id_range > 0


\* Iterator i is between two calls, or in a call outside the section under
\* the mutexes.
AtCallBoundary(i) ==
    pc[i] \in {"idle", "returned", "lock_mutex_enter", "trx_sys_mutex_enter",
               "lock_mutex_exit"}

====
